---------------------------- MODULE Spec2Model ----------------------------
(***************************************************************************)
(* Model of the hoowachy memory admission coordinator (MemoryManager,      *)
(* src/src/memory_manager.{h,cpp}) and of the buffered logger (Logger,     *)
(* src/src/logger.h and its implementation).                               *)
(*                                                                         *)
(* Every FreeRTOS task of the firmware that calls into the two singletons  *)
(* is a member of Tasks.  A call is split at the points where the code     *)
(* gives up the processor with shared state visible to other tasks: each   *)
(* xSemaphoreTake, each vTaskDelay.  A bounded-wait xSemaphoreTake has two *)
(* outcomes: the mutex is free and is taken, or it is held by another task *)
(* for the whole wait and the take fails.                                  *)
(*                                                                         *)
(* The LOG_* calls MemoryManager makes on its way are left out of its      *)
(* actions: no MemoryManager decision reads the logger's state.  A         *)
(* memoryMutex that could not be created is left out as well.              *)
(***************************************************************************)
EXTENDS Integers, Sequences, FiniteSets, TLC

VARIABLES
    \* ---- MemoryManager fields (memory_manager.h:71-102) ----
    memoryMutex,              \* 0 when free, else the task holding it
    lowMemoryThreshold,
    criticalMemoryThreshold,
    activeOperations,         \* [0..MAX_ACTIVE_OPERATIONS-1 -> ActiveOperation]
    activeOperationCount,
    cleanupCallbacks,         \* function over 0..MAX_CLEANUP_CALLBACKS-1
    cleanupCallbackCount,
    minimumFreeHeap,
    \* ---- the heap as ESP.getFreeHeap() reports it ----
    freeHeap,
    \* ---- per task: position in the call it is executing, and its locals ----
    pc,
    call,
    loopIndex,                \* the index i of performGlobalCleanup's loop
    \* ---- observation of the run (no counterpart in the code) ----
    invoked,                  \* per task: callbacks invoked by its current pass
    passStart,                \* per task: registrations written at its pass's start
    lastPass,                 \* the pass the step just taken completed, or NoPass
    registered,               \* every registration written so far, in order
    outOfTable,               \* a registration was written past cleanupCallbacks[9]
    lastExit,                 \* how the step just taken returned, or "none"
    owed,                     \* per identity: grants still awaiting a release call
    strayReleases,            \* a release call was made for an identity not owed
    serialLine,               \* what the step just taken printed through the logger
    budget,                   \* calls the environment may still issue
    \* ---- Logger fields (logger.h:93-101) ----
    logMutex,                 \* NoMutex until created, then 0 or the holding task
    bufferMutex,
    currentLogLevel,
    serialEnabled,
    fileEnabled,
    logFilePath,
    logBuffer,
    logSeq,                   \* observation: messages handed to writeLog so far
    \* ---- the UART behind Serial ----
    terminal,                 \* a terminal is attached and records the output
    serialOut,                \* the lines it has recorded, in order
    \* ---- the bus, the card and the file-writer task (part_006:332-406,
    \*      501-555) ----
    spiMutex,                 \* 0 when free, else the task holding it
    sdCard,                   \* the entries printed to the log file, in order
    writerPc,                 \* position of the task in runFileWriterTask
    checkIndex,               \* the index i of its for loop
    bufferCopy,               \* flushBufferToFile's local vector
    writeIndex,               \* the index i of its write loop
    moved,                    \* observation: what the flush took out of logBuffer
    lastFlush,                \* observation: the flush the step just taken ended
    leaseResult,              \* per caller: what its MemoryManager call returned
    \* ---- the weather task (part_010:213-278, 628-1174) ----
    weatherPc                 \* position of the task in fetchWeatherData

vars == << memoryMutex, lowMemoryThreshold, criticalMemoryThreshold,
           activeOperations, activeOperationCount, cleanupCallbacks,
           cleanupCallbackCount, minimumFreeHeap, freeHeap, pc, call, loopIndex,
           invoked, passStart, lastPass, registered, outOfTable, lastExit,
           owed, strayReleases, serialLine, budget, logMutex, bufferMutex,
           currentLogLevel, serialEnabled, fileEnabled, logFilePath,
           logBuffer, logSeq, terminal, serialOut, spiMutex, sdCard, writerPc, checkIndex,
           bufferCopy, writeIndex, moved, lastFlush, leaseResult,
           weatherPc >>

writerVars == << spiMutex, sdCard, writerPc, checkIndex, bufferCopy,
                writeIndex, moved >>

serialVars == << terminal, serialOut >>

weatherVars == << weatherPc >>

loggerVars == << logMutex, bufferMutex, currentLogLevel, serialEnabled,
                fileEnabled, logFilePath, logBuffer, logSeq, serialVars,
                writerVars >>

-----------------------------------------------------------------------------
(***************************************************************************)
(* size_t on the ESP32-S3 is an unsigned 32-bit integer.  A value is held  *)
(* as the pair <<high half, low half>> of 16-bit halves so that sums are   *)
(* taken modulo 2^32 exactly as the processor takes them.                  *)
(***************************************************************************)
Half == 2^16

U32(n) == << n \div Half, n % Half >>

Add32(a, b) ==
    LET lo == a[2] + b[2]
        hi == a[1] + b[1] + (lo \div Half)
    IN  << hi % Half, lo % Half >>

Div2(a) == << a[1] \div 2, ((a[1] % 2) * Half + a[2]) \div 2 >>

Ge32(a, b) == a[1] > b[1] \/ (a[1] = b[1] /\ a[2] >= b[2])

Lt32(a, b) == ~Ge32(a, b)

SIZE_MAX == << Half - 1, Half - 1 >>


-----------------------------------------------------------------------------
(***************************************************************************)
(* Enumerations and capacities of MemoryManager.                           *)
(***************************************************************************)
BACKGROUND == 0
NORMAL == 1
IMPORTANT == 2
CRITICAL == 3

JSON_PARSING == 0
HTTP_REQUEST == 1
DATA_PROCESSING == 2
DISPLAY_UPDATE == 3
CONFIG_OPERATION == 4

MAX_ACTIVE_OPERATIONS == 16
MAX_CLEANUP_CALLBACKS == 10
MODULE_NAME_SIZE == 32        \* char moduleName[32]
BACKGROUND_MARGIN == 10000    \* lowMemoryThreshold + 10000
DEFAULT_LOW_THRESHOLD == 20000
DEFAULT_CRITICAL_THRESHOLD == 10000

(***************************************************************************)
(* A C string is the sequence of its characters.  NullName stands for a    *)
(* nullptr argument (no C string holds the character 0).                   *)
(***************************************************************************)
EmptyName == << >>
NullName == << 0 >>
NameA == << 65 >>                                   \* "A"
NameB == << 66 >>                                   \* "B"
\* "Logger-Flush", the owner name of flushBufferToFile, by its initials.
FlushName == << 76, 70 >>
\* "AccuWeather-Fetch" and "AccuWeather-Parse", likewise.
FetchName == << 65, 70 >>
ParseName == << 65, 80 >>

LongName == [i \in 1 .. MODULE_NAME_SIZE |-> 76]    \* 32 characters, one too many

Min(a, b) == IF a <= b THEN a ELSE b

\* strncpy(dst, src, sizeof(dst) - 1); dst[sizeof(dst) - 1] = '\0';
StrNCpy(name) == SubSeq(name, 1, Min(Len(name), MODULE_NAME_SIZE - 1))

\* memset(&activeOperations[slot], 0, sizeof(ActiveOperation)).  startTime is
\* written by the requests and read by logMemoryStatus only; it is left out.
EmptyOperation ==
    [operation |-> 0, priority |-> 0, estimatedBytes |-> U32(0),
     moduleName |-> EmptyName]

Slots == 0 .. (MAX_ACTIVE_OPERATIONS - 1)

\* activeOperations[i].moduleName[0] == '\0'
SlotIsEmpty(i) == activeOperations[i].moduleName = EmptyName

OccupiedSlots == {i \in Slots : ~SlotIsEmpty(i)}

MinOf(S) == CHOOSE x \in S : \A y \in S : x <= y

hasAvailableSlot == activeOperationCount < MAX_ACTIVE_OPERATIONS

MaxOf(S) == CHOOSE x \in S : \A y \in S : x >= y

\* The scan as it would be if it kept the last match.
findOperationSlotLast(operation, moduleName) ==
    LET hits == {i \in Slots : /\ activeOperations[i].operation = operation
                               /\ activeOperations[i].moduleName = moduleName}
    IN  IF hits = {} THEN -1 ELSE MaxOf(hits)

\* Lines 383-391: the first slot whose operation and moduleName match.
findOperationSlot(operation, moduleName) ==
    LET hits == {i \in Slots : /\ activeOperations[i].operation = operation
                               /\ activeOperations[i].moduleName = moduleName}
    IN  IF hits = {} THEN -1 ELSE MinOf(hits)

\* The registration loop with a fall-back to slot 0 when no slot is empty.
FirstEmptySlotOrZero ==
    LET free == {i \in Slots : SlotIsEmpty(i)}
    IN  IF free = {} THEN 0 ELSE MinOf(free)

\* The slot the registration loop of the requests stops at, -1 when the loop
\* runs to its end.
FirstEmptySlot ==
    LET free == {i \in Slots : SlotIsEmpty(i)}
    IN  IF free = {} THEN -1 ELSE MinOf(free)

\* The reserve with CRITICAL given the whole critical threshold.
requiredFreeUnhalved(priority) ==
    CASE priority = CRITICAL   -> criticalMemoryThreshold
      [] priority = IMPORTANT  -> criticalMemoryThreshold
      [] priority = NORMAL     -> lowMemoryThreshold
      [] priority = BACKGROUND ->
             Add32(lowMemoryThreshold, U32(BACKGROUND_MARGIN))

\* The switch of canAllocate (lines 404-418).
requiredFree(priority) ==
    CASE priority = CRITICAL   -> Div2(criticalMemoryThreshold)
      [] priority = IMPORTANT  -> criticalMemoryThreshold
      [] priority = NORMAL     -> lowMemoryThreshold
      [] priority = BACKGROUND ->
             Add32(lowMemoryThreshold, U32(BACKGROUND_MARGIN))

canAllocate(bytes, priority) ==
    LET totalNeeded == Add32(bytes, requiredFree(priority))
    IN  Ge32(freeHeap, totalNeeded)

\* updateMinimumFreeHeap(): the value minimumFreeHeap holds afterwards
UpdatedMinimum == IF Lt32(freeHeap, minimumFreeHeap) THEN freeHeap ELSE minimumFreeHeap

isMemoryLow == Lt32(freeHeap, lowMemoryThreshold)
isMemoryCritical == Lt32(freeHeap, criticalMemoryThreshold)

-----------------------------------------------------------------------------
(***************************************************************************)
(* Tasks, their calls, and the bookkeeping of the observation variables.   *)
(***************************************************************************)
Tasks == {1, 2}

\* The task created for loggerTaskWrapper (part_004:90, 252-253), and every
\* task that has a position in a call.
LoggerTask == 3

\* The task that runs AccuWeather::Run (part_010:213).
WeatherTask == 5

\* The tasks whose MemoryManager calls are steps of a longer operation.
Callers == {LoggerTask, WeatherTask}

AllTasks == Tasks \cup Callers

NoCall == [fn |-> "none"]

AllNames == {EmptyName, NullName, NameA, NameB, LongName, FlushName,
             FetchName, ParseName}
Identities == (JSON_PARSING .. CONFIG_OPERATION) \X AllNames

NoPass == [start |-> -1, invoked |-> << >>]

NoLine == [formatted |-> FALSE, level |-> -1, below |-> FALSE, task |-> 0,
           id |-> 0]

NoFlush == [ended |-> FALSE, moved |-> << >>, written |-> << >>,
            aborted |-> FALSE]

\* The observations of one step, for a step that ends nothing.
NoExit ==
    /\ lastExit' = "none"
    /\ lastPass' = NoPass
    /\ serialLine' = NoLine
    /\ lastFlush' = NoFlush

\* A step that returns from no call.
NoReturn == NoExit /\ UNCHANGED leaseResult

\* The call of task t returns.
Return(t, exit) ==
    /\ pc' = [pc EXCEPT ![t] = "idle"]
    /\ call' = [call EXCEPT ![t] = NoCall]
    /\ lastExit' = exit
    /\ lastPass' = NoPass
    /\ serialLine' = NoLine
    /\ lastFlush' = NoFlush
    /\ leaseResult' = IF t \in Callers
                      THEN [leaseResult EXCEPT ![t] = exit]
                      ELSE leaseResult

\* The exits of requestMemory and requestMemoryQuiet that return true.
GrantExits == {"request:granted", "request:granted-after-cleanup", "quiet:granted"}

\* A request was granted to (operation, moduleName).
Granted(operation, moduleName) ==
    owed' = [owed EXCEPT ![<< operation, moduleName >>] = @ + 1]

\* A release call for (operation, moduleName) returns.
ReleaseCallMade(operation, moduleName) ==
    IF owed[<< operation, moduleName >>] > 0
    THEN /\ owed' = [owed EXCEPT ![<< operation, moduleName >>] = @ - 1]
         /\ UNCHANGED strayReleases
    ELSE /\ strayReleases' = TRUE
         /\ UNCHANGED owed

callbackVars == << cleanupCallbacks, cleanupCallbackCount, registered, outOfTable >>
passVars == << loopIndex, invoked, passStart >>
thresholdVars == << lowMemoryThreshold, criticalMemoryThreshold >>
leaseVars == << activeOperations, activeOperationCount >>
ghostLeaseVars == << owed, strayReleases >>

-----------------------------------------------------------------------------
(***************************************************************************)
(* The log buffer (part_006:282-330).  MemoryManager reports what it does  *)
(* with LOG_INFO and LOG_INFOF (logger.h:114-115), so its functions reach  *)
(* addToBuffer on the task that called them.                               *)
(***************************************************************************)
DEBUG == 0
INFO == 1
WARNING == 2
ERROR == 3

LogLevels == DEBUG .. ERROR

NoMutex == -1                  \* SemaphoreHandle_t ... = nullptr

MAX_BUFFER_SIZE == 50
BUFFER_SKIP_HEAP == 6144       \* addToBuffer: if (freeHeap < 6144) return
BUFFER_LOW_HEAP == 8192        \* addToBuffer: freeHeap < 8192
BUFFER_MODERATE_HEAP == 12288  \* addToBuffer: freeHeap < 12288
CATCH_ERASE == 10              \* the catch block erases up to 10 entries

\* The while loop as it would be if it erased from the end of the buffer.
EvictNewest(buffer, maxSize) ==
    IF Len(buffer) >= maxSize
    THEN SubSeq(buffer, 1, maxSize - 1)
    ELSE buffer

\* The while loop as it would be if it ran while size() > maxSize.
EvictLate(buffer, maxSize) ==
    IF Len(buffer) > maxSize
    THEN SubSeq(buffer, Len(buffer) - maxSize + 1, Len(buffer))
    ELSE buffer

\* The while loop of addToBuffer (part_006:308-310).
Evict(buffer, maxSize) ==
    IF Len(buffer) >= maxSize
    THEN SubSeq(buffer, Len(buffer) - maxSize + 2, Len(buffer))
    ELSE buffer

\* addToBuffer (part_006:282-330): the buffer it leaves of buffer.  alloc tells whether
\* emplace_back throws: "ok", "once" (the one in the catch block succeeds)
\* or "twice".
addToBufferOn(buffer, entry, alloc) ==
    IF bufferMutex = NoMutex THEN buffer
    ELSE IF Lt32(freeHeap, U32(BUFFER_SKIP_HEAP)) THEN buffer
    ELSE IF bufferMutex # 0 THEN buffer
    ELSE LET maxSize ==
                 IF Lt32(freeHeap, U32(BUFFER_LOW_HEAP))
                 THEN MAX_BUFFER_SIZE \div 4
                 ELSE IF Lt32(freeHeap, U32(BUFFER_MODERATE_HEAP))
                 THEN MAX_BUFFER_SIZE \div 2
                 ELSE MAX_BUFFER_SIZE
             managed ==
                 IF Lt32(freeHeap, U32(BUFFER_LOW_HEAP)) /\ buffer # << >>
                 THEN << >>
                 ELSE Evict(buffer, maxSize)
             erased ==
                 SubSeq(managed, Min(CATCH_ERASE, Len(managed)) + 1, Len(managed))
         IN  IF alloc = "ok" THEN Append(managed, entry)
             ELSE IF managed = << >> THEN managed
             ELSE IF alloc = "once" THEN Append(erased, entry)
             ELSE erased

\* addToBuffer as it would be if the lowest tier trimmed the buffer to its
\* capacity like the other tiers.
addToBufferTrimming(entry, alloc) ==
    IF bufferMutex = NoMutex THEN logBuffer
    ELSE IF Lt32(freeHeap, U32(BUFFER_SKIP_HEAP)) THEN logBuffer
    ELSE IF bufferMutex # 0 THEN logBuffer
    ELSE LET maxSize ==
                 IF Lt32(freeHeap, U32(BUFFER_LOW_HEAP))
                 THEN MAX_BUFFER_SIZE \div 4
                 ELSE IF Lt32(freeHeap, U32(BUFFER_MODERATE_HEAP))
                 THEN MAX_BUFFER_SIZE \div 2
                 ELSE MAX_BUFFER_SIZE
         IN  Append(Evict(logBuffer, maxSize), entry)

\* addToBuffer as it would be without the test of line 287.
addToBufferFloorless(entry, alloc) ==
    IF bufferMutex # 0 THEN logBuffer
    ELSE IF Lt32(freeHeap, U32(BUFFER_LOW_HEAP)) THEN << entry >>
    ELSE Append(Evict(logBuffer, MAX_BUFFER_SIZE), entry)

\* addToBuffer as it would be without lines 294-311.
addToBufferNoEviction(entry, alloc) ==
    IF bufferMutex # 0 THEN logBuffer ELSE Append(logBuffer, entry)

\* The append as it would be if the entry went before those buffered.
addToBufferAhead(entry, alloc) ==
    LET after == addToBufferOn(logBuffer, entry, alloc)
    IN  IF after # << >> /\ after[Len(after)] = entry
        THEN << entry >> \o SubSeq(after, 1, Len(after) - 1)
        ELSE after

\* addToBuffer on the buffer of the logger.
addToBuffer(entry, alloc) == addToBufferOn(logBuffer, entry, alloc)

\* The entry of a line logged by MemoryManager.
ManagerEntry == [level |-> INFO, below |-> FALSE, id |-> 0]

\* buffer after n more entries of MemoryManager.
RECURSIVE AfterLogs(_, _)
AfterLogs(buffer, n) ==
    IF n = 0 THEN buffer
    ELSE AfterLogs(addToBufferOn(buffer, ManagerEntry, "ok"), n - 1)

\* The n LOG_INFO and LOG_INFOF calls of a step of MemoryManager: info and
\* infof return at once when INFO is below currentLogLevel (part_006:66,
\* 137); writeLog prints without buffering when there is no logMutex, drops
\* the line when logMutex is not obtained in 1000 ms, and calls addToBuffer
\* when the file sink is on (255-280).  What the lines print is not recorded.
MemoryManagerLogs(n) ==
    /\ logBuffer' = IF currentLogLevel <= INFO /\ logMutex = 0 /\ fileEnabled
                    THEN AfterLogs(logBuffer, n)
                    ELSE logBuffer
    /\ UNCHANGED << logMutex, bufferMutex, currentLogLevel, serialEnabled,
                    fileEnabled, logFilePath, logSeq, serialVars, writerVars >>

\* The lines of the registration loop (memory_manager.cpp:118-147).
RegistrationLogs ==
    IF FirstEmptySlot >= 0 THEN FirstEmptySlot + 4
                           ELSE MAX_ACTIVE_OPERATIONS + 2

\* The lines a cleanup callback logs: accuWeatherCleanupCallback two
\* (part_010:26, 33).
CallbackLogs(callback) == IF callback = "accuWeatherCleanupCallback" THEN 2 ELSE 0

-----------------------------------------------------------------------------
(***************************************************************************)
(* requestMemory (memory_manager.cpp:48-152)                               *)
(***************************************************************************)

\* Lines 117-151: the registration loop, updateMinimumFreeHeap, give, return.
RegisterOperationAndReturn(t, exitGranted, exitNoSlot) ==
    LET c == call[t]
        slot == FirstEmptySlot
    IN  /\ IF slot >= 0
           THEN /\ activeOperations' =
                      [activeOperations EXCEPT ![slot] =
                          [operation |-> c.operation,
                           priority |-> c.priority,
                           estimatedBytes |-> c.estimatedBytes,
                           moduleName |-> StrNCpy(c.moduleName)]]
                /\ activeOperationCount' = activeOperationCount + 1
                /\ Granted(c.operation, c.moduleName)
                /\ Return(t, exitGranted)
           ELSE /\ UNCHANGED << leaseVars, owed >>
                /\ Return(t, exitNoSlot)
        /\ minimumFreeHeap' = UpdatedMinimum
        /\ memoryMutex' = 0

\* Lines 48-60: the argument check and the first xSemaphoreTake (5000 ms).
RequestMemory(t, operation, priority, estimatedBytes, moduleName) ==
    /\ pc[t] = "idle"
    /\ MemoryManagerLogs(IF moduleName = NullName \/ memoryMutex # 0 THEN 2 ELSE 1)
    /\ UNCHANGED weatherVars
    /\ IF moduleName = NullName
       THEN /\ Return(t, "request:nullptr")
            /\ UNCHANGED memoryMutex
       ELSE IF memoryMutex = 0
       THEN /\ memoryMutex' = t
            /\ pc' = [pc EXCEPT ![t] = "rq_locked"]
            /\ call' = [call EXCEPT ![t] =
                   [fn |-> "requestMemory", operation |-> operation,
                    priority |-> priority, estimatedBytes |-> estimatedBytes,
                    moduleName |-> moduleName]]
            /\ NoReturn
       ELSE /\ Return(t, "request:timeout")
            /\ UNCHANGED memoryMutex
    /\ UNCHANGED << leaseVars, callbackVars, passVars, thresholdVars,
                    minimumFreeHeap, freeHeap, ghostLeaseVars >>

\* The critical section as it would be if it kept the mutex over the
\* cleanup pass and the wait.
RequestMemoryLockedKeeping(t) ==
    /\ pc[t] = "rq_locked"
    /\ MemoryManagerLogs(IF ~hasAvailableSlot THEN 4
                         ELSE IF canAllocate(call[t].estimatedBytes, call[t].priority)
                         THEN 5 + RegistrationLogs
                         ELSE 7)
    /\ UNCHANGED << budget, weatherVars >>
    /\ IF ~hasAvailableSlot
       THEN /\ memoryMutex' = 0
            /\ Return(t, "request:noslot")
            /\ UNCHANGED << leaseVars, minimumFreeHeap, owed, passVars >>
       ELSE IF canAllocate(call[t].estimatedBytes, call[t].priority)
       THEN /\ RegisterOperationAndReturn(t, "request:granted", "request:nofreeslot")
            /\ UNCHANGED passVars
       ELSE /\ UNCHANGED memoryMutex
            /\ pc' = [pc EXCEPT ![t] = "cleanup"]
            /\ loopIndex' = [loopIndex EXCEPT ![t] = 0]
            /\ invoked' = [invoked EXCEPT ![t] = << >>]
            /\ passStart' = [passStart EXCEPT ![t] = Len(registered)]
            /\ NoReturn
            /\ UNCHANGED << leaseVars, minimumFreeHeap, owed, call >>
    /\ UNCHANGED << callbackVars, thresholdVars, freeHeap, strayReleases >>

\* Lines 66-136: the slot check, the byte check and either the registration or
\* the give that precedes the cleanup pass.
RequestMemoryLocked(t) ==
    /\ pc[t] = "rq_locked"
    /\ MemoryManagerLogs(IF ~hasAvailableSlot THEN 4
                         ELSE IF canAllocate(call[t].estimatedBytes, call[t].priority)
                         THEN 5 + RegistrationLogs
                         ELSE 7)
    /\ UNCHANGED << budget, weatherVars >>
    /\ IF ~hasAvailableSlot
       THEN /\ memoryMutex' = 0
            /\ Return(t, "request:noslot")
            /\ UNCHANGED << leaseVars, minimumFreeHeap, owed, passVars >>
       ELSE IF canAllocate(call[t].estimatedBytes, call[t].priority)
       THEN /\ RegisterOperationAndReturn(t, "request:granted", "request:nofreeslot")
            /\ UNCHANGED passVars
       ELSE /\ memoryMutex' = 0
            /\ pc' = [pc EXCEPT ![t] = "cleanup"]
            /\ loopIndex' = [loopIndex EXCEPT ![t] = 0]
            /\ invoked' = [invoked EXCEPT ![t] = << >>]
            /\ passStart' = [passStart EXCEPT ![t] = Len(registered)]
            /\ NoReturn
            /\ UNCHANGED << leaseVars, minimumFreeHeap, owed, call >>
    /\ UNCHANGED << callbackVars, thresholdVars, freeHeap, strayReleases >>

(***************************************************************************)
(* performGlobalCleanup (memory_manager.cpp:279-304).  It takes no lock.   *)
(* CallbackAt(i) is what cleanupCallbacks[i] reads: past the table it is   *)
(* memory that holds no registration.                                      *)
(***************************************************************************)
NoCallback == [moduleName |-> EmptyName, callback |-> "nullptr"]
WildCallback == [moduleName |-> EmptyName, callback |-> "wild"]

CallbackAt(i) == IF i < MAX_CLEANUP_CALLBACKS THEN cleanupCallbacks[i] ELSE WildCallback

\* One iteration of the loop: the call of callback i and the vTaskDelay.
CleanupInvoke(t) ==
    /\ pc[t] = "cleanup"
    /\ MemoryManagerLogs((IF loopIndex[t] = 0 THEN 1 ELSE 0)
                         + (IF CallbackAt(loopIndex[t]).callback # "nullptr"
                            THEN 1 + CallbackLogs(CallbackAt(loopIndex[t]).callback)
                            ELSE 0))
    /\ UNCHANGED << budget, weatherVars >>
    /\ loopIndex[t] < cleanupCallbackCount
    /\ invoked' = [invoked EXCEPT ![t] =
           IF CallbackAt(loopIndex[t]).callback # "nullptr"
           THEN Append(@, CallbackAt(loopIndex[t]))
           ELSE @]
    /\ loopIndex' = [loopIndex EXCEPT ![t] = @ + 1]
    /\ NoReturn
    /\ UNCHANGED << memoryMutex, leaseVars, callbackVars, thresholdVars,
                    passStart, minimumFreeHeap, freeHeap, pc, call,
                    ghostLeaseVars >>

\* The loop ends; the two forceGarbageCollection calls follow.  Within
\* requestMemory the wait for memory comes next; a direct call returns.
CleanupFinish(t) ==
    /\ pc[t] = "cleanup"
    /\ MemoryManagerLogs(IF loopIndex[t] = 0 THEN 2 ELSE 1)
    /\ UNCHANGED << budget, weatherVars >>
    /\ loopIndex[t] >= cleanupCallbackCount
    /\ IF call[t].fn = "requestMemory"
       THEN /\ pc' = [pc EXCEPT ![t] = "wait"]
            /\ lastExit' = "none"
            /\ UNCHANGED call
       ELSE /\ pc' = [pc EXCEPT ![t] = "idle"]
            /\ call' = [call EXCEPT ![t] = NoCall]
            /\ lastExit' = "cleanup:done"
    /\ lastPass' = [start |-> passStart[t], invoked |-> invoked[t]]
    /\ serialLine' = NoLine
    /\ lastFlush' = NoFlush
    /\ UNCHANGED leaseResult
    /\ loopIndex' = [loopIndex EXCEPT ![t] = 0]
    /\ invoked' = [invoked EXCEPT ![t] = << >>]
    /\ passStart' = [passStart EXCEPT ![t] = 0]
    /\ UNCHANGED << memoryMutex, leaseVars, callbackVars, thresholdVars,
                    minimumFreeHeap, freeHeap, ghostLeaseVars >>

\* A task calls performGlobalCleanup() itself.
PerformGlobalCleanup(t) ==
    /\ pc[t] = "idle"
    /\ UNCHANGED << loggerVars, weatherVars >>
    /\ pc' = [pc EXCEPT ![t] = "cleanup"]
    /\ call' = [call EXCEPT ![t] = [fn |-> "performGlobalCleanup"]]
    /\ loopIndex' = [loopIndex EXCEPT ![t] = 0]
    /\ invoked' = [invoked EXCEPT ![t] = << >>]
    /\ passStart' = [passStart EXCEPT ![t] = Len(registered)]
    /\ NoReturn
    /\ UNCHANGED << memoryMutex, leaseVars, callbackVars, thresholdVars,
                    minimumFreeHeap, freeHeap, ghostLeaseVars >>

(***************************************************************************)
(* waitForMemory (memory_manager.cpp:429-451): the loop leaves when a poll *)
(* finds the request admissible, or when 30 s have passed without that.    *)
(***************************************************************************)
WaitForMemoryAvailable(t) ==
    /\ pc[t] = "wait"
    /\ MemoryManagerLogs(3)
    /\ UNCHANGED << budget, weatherVars >>
    /\ canAllocate(call[t].estimatedBytes, call[t].priority)
    /\ pc' = [pc EXCEPT ![t] = "retake"]
    /\ NoReturn
    /\ UNCHANGED << memoryMutex, leaseVars, callbackVars, passVars,
                    thresholdVars, minimumFreeHeap, freeHeap, call,
                    ghostLeaseVars >>

\* The loop of waitForMemory as it would be without its timeout.
WaitForMemoryNoTimeout(t) == WaitForMemoryAvailable(t)

WaitForMemoryTimeout(t) ==
    /\ pc[t] = "wait"
    /\ MemoryManagerLogs(3)
    /\ UNCHANGED << budget, weatherVars >>
    /\ ~canAllocate(call[t].estimatedBytes, call[t].priority)
    /\ pc' = [pc EXCEPT ![t] = "retake"]
    /\ NoReturn
    /\ UNCHANGED << memoryMutex, leaseVars, callbackVars, passVars,
                    thresholdVars, minimumFreeHeap, freeHeap, call,
                    ghostLeaseVars >>

\* Lines 103-107: the second xSemaphoreTake (5000 ms).
RequestMemoryRetake(t) ==
    /\ pc[t] = "retake"
    /\ MemoryManagerLogs(IF memoryMutex = 0 THEN 0 ELSE 1)
    /\ UNCHANGED << budget, weatherVars >>
    /\ IF memoryMutex = 0
       THEN /\ memoryMutex' = t
            /\ pc' = [pc EXCEPT ![t] = "relocked"]
            /\ NoReturn /\ UNCHANGED call
       ELSE /\ Return(t, "request:retimeout")
            /\ UNCHANGED memoryMutex
    /\ UNCHANGED << leaseVars, callbackVars, passVars, thresholdVars,
                    minimumFreeHeap, freeHeap, ghostLeaseVars >>

\* The second byte check as it would be if a failure started the cleanup
\* and the wait again.
RequestMemoryRelockedRetrying(t) ==
    /\ pc[t] = "relocked"
    /\ MemoryManagerLogs(IF canAllocate(call[t].estimatedBytes, call[t].priority)
                         THEN 1 + RegistrationLogs
                         ELSE 2)
    /\ UNCHANGED << budget, weatherVars >>
    /\ IF ~canAllocate(call[t].estimatedBytes, call[t].priority)
       THEN /\ memoryMutex' = 0
            /\ pc' = [pc EXCEPT ![t] = "cleanup"]
            /\ loopIndex' = [loopIndex EXCEPT ![t] = 0]
            /\ invoked' = [invoked EXCEPT ![t] = << >>]
            /\ passStart' = [passStart EXCEPT ![t] = Len(registered)]
            /\ NoReturn
            /\ UNCHANGED << leaseVars, minimumFreeHeap, owed, call >>
       ELSE /\ RegisterOperationAndReturn(t, "request:granted-after-cleanup",
                                             "request:nofreeslot")
            /\ UNCHANGED passVars
    /\ UNCHANGED << callbackVars, thresholdVars, freeHeap, strayReleases >>

\* The second critical section as it would be if the denial of line 110
\* returned without the give of line 112.
RequestMemoryRelockedHolding(t) ==
    /\ pc[t] = "relocked"
    /\ MemoryManagerLogs(IF canAllocate(call[t].estimatedBytes, call[t].priority)
                         THEN 1 + RegistrationLogs
                         ELSE 2)
    /\ UNCHANGED << budget, weatherVars >>
    /\ IF ~canAllocate(call[t].estimatedBytes, call[t].priority)
       THEN /\ UNCHANGED memoryMutex
            /\ Return(t, "request:denied")
            /\ UNCHANGED << leaseVars, minimumFreeHeap, owed >>
       ELSE RegisterOperationAndReturn(t, "request:granted-after-cleanup",
                                          "request:nofreeslot")
    /\ UNCHANGED << callbackVars, passVars, thresholdVars, freeHeap, strayReleases >>

\* Lines 109-151: the second byte check and the registration.
RequestMemoryRelocked(t) ==
    /\ pc[t] = "relocked"
    /\ MemoryManagerLogs(IF canAllocate(call[t].estimatedBytes, call[t].priority)
                         THEN 1 + RegistrationLogs
                         ELSE 2)
    /\ UNCHANGED << budget, weatherVars >>
    /\ IF ~canAllocate(call[t].estimatedBytes, call[t].priority)
       THEN /\ memoryMutex' = 0
            /\ Return(t, "request:denied")
            /\ UNCHANGED << leaseVars, minimumFreeHeap, owed >>
       ELSE RegisterOperationAndReturn(t, "request:granted-after-cleanup",
                                          "request:nofreeslot")
    /\ UNCHANGED << callbackVars, passVars, thresholdVars, freeHeap, strayReleases >>

(***************************************************************************)
(* requestMemoryQuiet (memory_manager.cpp:182-231)                         *)
(***************************************************************************)

\* Lines 182-191: the argument check and the xSemaphoreTake (1000 ms).
RequestMemoryQuiet(t, operation, priority, estimatedBytes, moduleName) ==
    /\ pc[t] = "idle"
    /\ UNCHANGED << loggerVars, weatherVars >>
    /\ IF moduleName = NullName
       THEN /\ Return(t, "quiet:nullptr")
            /\ UNCHANGED memoryMutex
       ELSE IF memoryMutex = 0
       THEN /\ memoryMutex' = t
            /\ pc' = [pc EXCEPT ![t] = "q_locked"]
            /\ call' = [call EXCEPT ![t] =
                   [fn |-> "requestMemoryQuiet", operation |-> operation,
                    priority |-> priority, estimatedBytes |-> estimatedBytes,
                    moduleName |-> moduleName]]
            /\ NoReturn
       ELSE /\ Return(t, "quiet:timeout")
            /\ UNCHANGED memoryMutex
    /\ UNCHANGED << leaseVars, callbackVars, passVars, thresholdVars,
                    minimumFreeHeap, freeHeap, ghostLeaseVars >>

\* The quiet request given the failure path of requestMemory.
RequestMemoryQuietLockedAsLoud(t) ==
    /\ pc[t] = "q_locked"
    /\ MemoryManagerLogs(IF ~hasAvailableSlot THEN 0
                         ELSE IF ~canAllocate(call[t].estimatedBytes, call[t].priority)
                         THEN 1
                         ELSE IF FirstEmptySlot >= 0 THEN 1 ELSE 2)
    /\ UNCHANGED << budget, weatherVars >>
    /\ IF ~hasAvailableSlot
       THEN /\ memoryMutex' = 0
            /\ Return(t, "quiet:noslot")
            /\ UNCHANGED << leaseVars, minimumFreeHeap, owed, passVars >>
       ELSE IF ~canAllocate(call[t].estimatedBytes, call[t].priority)
       THEN /\ memoryMutex' = 0
            /\ pc' = [pc EXCEPT ![t] = "cleanup"]
            /\ loopIndex' = [loopIndex EXCEPT ![t] = 0]
            /\ invoked' = [invoked EXCEPT ![t] = << >>]
            /\ passStart' = [passStart EXCEPT ![t] = Len(registered)]
            /\ NoReturn
            /\ UNCHANGED << leaseVars, minimumFreeHeap, owed, call >>
       ELSE /\ RegisterOperationAndReturn(t, "quiet:granted", "quiet:nofreeslot")
            /\ UNCHANGED passVars
    /\ UNCHANGED << callbackVars, thresholdVars, freeHeap, strayReleases >>

\* Lines 193-230: the critical section.
RequestMemoryQuietLocked(t) ==
    /\ pc[t] = "q_locked"
    /\ MemoryManagerLogs(IF ~hasAvailableSlot THEN 0
                         ELSE IF ~canAllocate(call[t].estimatedBytes, call[t].priority)
                         THEN 1
                         ELSE IF FirstEmptySlot >= 0 THEN 1 ELSE 2)
    /\ UNCHANGED << budget, weatherVars >>
    /\ IF ~hasAvailableSlot
       THEN /\ memoryMutex' = 0
            /\ Return(t, "quiet:noslot")
            /\ UNCHANGED << leaseVars, minimumFreeHeap, owed >>
       ELSE IF ~canAllocate(call[t].estimatedBytes, call[t].priority)
       THEN /\ memoryMutex' = 0
            /\ Return(t, "quiet:denied")
            /\ UNCHANGED << leaseVars, minimumFreeHeap, owed >>
       ELSE RegisterOperationAndReturn(t, "quiet:granted", "quiet:nofreeslot")
    /\ UNCHANGED << callbackVars, passVars, thresholdVars, freeHeap, strayReleases >>

(***************************************************************************)
(* releaseMemory (memory_manager.cpp:154-180) and releaseMemoryQuiet       *)
(* (233-254).  They differ in the length of the bounded wait and in what   *)
(* they log.                                                               *)
(***************************************************************************)

\* removeOperation as it would be without the decrement of line 396.
removeOperationKeepingCount(slot) ==
    IF slot >= 0 /\ slot < MAX_ACTIVE_OPERATIONS
    THEN /\ activeOperations' = [activeOperations EXCEPT ![slot] = EmptyOperation]
         /\ UNCHANGED activeOperationCount
    ELSE UNCHANGED leaseVars

\* memset(&activeOperations[slot], 0, ...); activeOperationCount--;
removeOperation(slot) ==
    IF slot >= 0 /\ slot < MAX_ACTIVE_OPERATIONS
    THEN /\ activeOperations' = [activeOperations EXCEPT ![slot] = EmptyOperation]
         /\ activeOperationCount' = activeOperationCount - 1
    ELSE UNCHANGED leaseVars

\* The argument check and the xSemaphoreTake (1000 ms, quiet: 100 ms).
ReleaseMemory(t, fn, operation, moduleName) ==
    /\ pc[t] = "idle"
    /\ UNCHANGED << loggerVars, weatherVars >>
    /\ fn \in {"releaseMemory", "releaseMemoryQuiet"}
    /\ IF moduleName = NullName
       THEN /\ Return(t, "release:nullptr")
            /\ ReleaseCallMade(operation, moduleName)
            /\ UNCHANGED memoryMutex
       ELSE IF memoryMutex = 0
       THEN /\ memoryMutex' = t
            /\ pc' = [pc EXCEPT ![t] = "rel_locked"]
            /\ call' = [call EXCEPT ![t] =
                   [fn |-> fn, operation |-> operation, moduleName |-> moduleName]]
            /\ NoReturn /\ UNCHANGED ghostLeaseVars
       ELSE /\ Return(t, "release:timeout")
            /\ ReleaseCallMade(operation, moduleName)
            /\ UNCHANGED memoryMutex
    /\ UNCHANGED << leaseVars, callbackVars, passVars, thresholdVars,
                    minimumFreeHeap, freeHeap >>

\* The critical section: findOperationSlot, removeOperation,
\* forceGarbageCollection, updateMinimumFreeHeap, give.
ReleaseMemoryLocked(t) ==
    LET slot == findOperationSlot(call[t].operation, call[t].moduleName)
    IN  /\ pc[t] = "rel_locked"
        /\ MemoryManagerLogs(IF call[t].fn = "releaseMemory" THEN 1 ELSE 0)
        /\ UNCHANGED << budget, weatherVars >>
        /\ IF slot >= 0
           THEN /\ removeOperation(slot)
                /\ Return(t, "release:removed")
           ELSE /\ UNCHANGED leaseVars
                /\ Return(t, "release:notfound")
        /\ ReleaseCallMade(call[t].operation, call[t].moduleName)
        /\ minimumFreeHeap' = UpdatedMinimum
        /\ memoryMutex' = 0
        /\ UNCHANGED << callbackVars, passVars, thresholdVars, freeHeap >>

(***************************************************************************)
(* registerCleanupCallback (memory_manager.cpp:306-322).  The capacity     *)
(* check of line 307 reads cleanupCallbackCount before the mutex is taken. *)
(***************************************************************************)

\* Line 307.
RegisterCleanupCallback(t, moduleName, callback) ==
    /\ pc[t] = "idle"
    /\ UNCHANGED << loggerVars, weatherVars >>
    /\ IF \/ cleanupCallbackCount >= MAX_CLEANUP_CALLBACKS
          \/ moduleName = NullName
          \/ callback = "nullptr"
       THEN Return(t, "register:dropped")
       ELSE /\ pc' = [pc EXCEPT ![t] = "reg_take"]
            /\ call' = [call EXCEPT ![t] =
                   [fn |-> "registerCleanupCallback", moduleName |-> moduleName,
                    callback |-> callback]]
            /\ NoReturn
    /\ UNCHANGED << memoryMutex, leaseVars, callbackVars, passVars, thresholdVars,
                    minimumFreeHeap, freeHeap, ghostLeaseVars >>

\* Line 311: xSemaphoreTake (1000 ms); nothing is done when it fails.
RegisterTake(t) ==
    /\ pc[t] = "reg_take"
    /\ UNCHANGED << budget, loggerVars, weatherVars >>
    /\ IF memoryMutex = 0
       THEN /\ memoryMutex' = t
            /\ pc' = [pc EXCEPT ![t] = "reg_locked"]
            /\ NoReturn /\ UNCHANGED call
       ELSE /\ Return(t, "register:timeout")
            /\ UNCHANGED memoryMutex
    /\ UNCHANGED << leaseVars, callbackVars, passVars, thresholdVars,
                    minimumFreeHeap, freeHeap, ghostLeaseVars >>

\* Lines 312-320.  With cleanupCallbackCount = 10 the entry is written past
\* the table, onto cleanupCallbackCount, minimumFreeHeap and what follows
\* them (memory_manager.h:97-102): the values they are left with are any.
\* A count of MAX_CLEANUP_CALLBACKS + 1 stands for every count past the table.
RegisterLocked(t) ==
    LET entry == [moduleName |-> StrNCpy(call[t].moduleName),
                  callback |-> call[t].callback]
    IN  /\ pc[t] = "reg_locked"
        /\ MemoryManagerLogs(1)
        /\ UNCHANGED << budget, weatherVars >>
        /\ IF cleanupCallbackCount < MAX_CLEANUP_CALLBACKS
           THEN /\ cleanupCallbacks' =
                      [cleanupCallbacks EXCEPT ![cleanupCallbackCount] = entry]
                /\ cleanupCallbackCount' = cleanupCallbackCount + 1
                /\ UNCHANGED << outOfTable, minimumFreeHeap >>
           ELSE /\ outOfTable' = TRUE
                /\ cleanupCallbackCount' \in 0 .. (MAX_CLEANUP_CALLBACKS + 1)
                /\ minimumFreeHeap' \in {minimumFreeHeap, SIZE_MAX}
                /\ UNCHANGED cleanupCallbacks
        /\ registered' = Append(registered, entry)
        /\ memoryMutex' = 0
        /\ Return(t, "register:written")
        /\ UNCHANGED << leaseVars, passVars, thresholdVars, freeHeap,
                        ghostLeaseVars >>

(***************************************************************************)
(* The threshold setters (memory_manager.cpp:42-46, 324-332) and the heap. *)
(***************************************************************************)
SetLowMemoryThreshold(threshold) ==
    /\ lowMemoryThreshold' = threshold
    /\ MemoryManagerLogs(1)
    /\ UNCHANGED << budget, weatherVars >>
    /\ NoReturn
    /\ UNCHANGED << memoryMutex, criticalMemoryThreshold, leaseVars,
                    callbackVars, passVars, minimumFreeHeap, freeHeap, pc,
                    call, ghostLeaseVars >>

SetCriticalMemoryThreshold(threshold) ==
    /\ criticalMemoryThreshold' = threshold
    /\ MemoryManagerLogs(1)
    /\ UNCHANGED << budget, weatherVars >>
    /\ NoReturn
    /\ UNCHANGED << memoryMutex, lowMemoryThreshold, leaseVars, callbackVars,
                    passVars, minimumFreeHeap, freeHeap, pc, call,
                    ghostLeaseVars >>

SetDefaultThresholds(low, critical) ==
    /\ lowMemoryThreshold' = low
    /\ criticalMemoryThreshold' = critical
    /\ MemoryManagerLogs(2)
    /\ UNCHANGED << budget, weatherVars >>
    /\ NoReturn
    /\ UNCHANGED << memoryMutex, leaseVars, callbackVars, passVars,
                    minimumFreeHeap, freeHeap, pc, call, ghostLeaseVars >>

\* Allocations and frees of the whole firmware move what ESP.getFreeHeap() reports.
HeapChanges(bytes) ==
    /\ freeHeap # bytes
    /\ UNCHANGED << budget, loggerVars, weatherVars >>
    /\ freeHeap' = bytes
    /\ NoReturn
    /\ UNCHANGED << memoryMutex, thresholdVars, leaseVars, callbackVars,
                    passVars, minimumFreeHeap, pc, call, ghostLeaseVars >>

-----------------------------------------------------------------------------
(***************************************************************************)
(* The state after MemoryManager's constructor (memory_manager.cpp:8-22):  *)
(* both tables zeroed, the thresholds at their in-class defaults, and the  *)
(* minimum set by the first updateMinimumFreeHeap().                       *)
(***************************************************************************)
HeapLevels == {U32(8000), U32(30000)}

ConstructedWith(low, critical, setupCallbacks) ==
    /\ memoryMutex = 0
    /\ lowMemoryThreshold = low
    /\ criticalMemoryThreshold = critical
    /\ activeOperations = [i \in Slots |-> EmptyOperation]
    /\ activeOperationCount = 0
    /\ cleanupCallbacks =
           [i \in 0 .. (MAX_CLEANUP_CALLBACKS - 1) |->
               IF i < Len(setupCallbacks) THEN setupCallbacks[i + 1] ELSE NoCallback]
    /\ cleanupCallbackCount = Len(setupCallbacks)
    /\ freeHeap \in HeapLevels
    /\ minimumFreeHeap = freeHeap
    /\ pc = [t \in AllTasks |-> "idle"]
    /\ call = [t \in AllTasks |-> NoCall]
    /\ loopIndex = [t \in AllTasks |-> 0]
    /\ invoked = [t \in AllTasks |-> << >>]
    /\ passStart = [t \in AllTasks |-> 0]
    /\ lastPass = NoPass
    /\ registered = setupCallbacks
    /\ outOfTable = FALSE
    /\ lastExit = "none"
    /\ owed = [id \in Identities |-> 0]
    /\ strayReleases = FALSE
    /\ serialLine = NoLine
    /\ lastFlush = NoFlush
    /\ leaseResult = [t \in Callers |-> "none"]
    /\ weatherPc = "idle"

InitCoordinator ==
    ConstructedWith(U32(DEFAULT_LOW_THRESHOLD), U32(DEFAULT_CRITICAL_THRESHOLD), << >>)

(***************************************************************************)
(* The state setup() leaves when the tasks start: the thresholds set by    *)
(* setDefaultThresholds(10000, 5000) and the one callback the firmware     *)
(* registers, in AccuWeather::Setup().                                     *)
(***************************************************************************)
APP_LOW_THRESHOLD == 10000
APP_CRITICAL_THRESHOLD == 5000

AccuWeatherName == << 65, 99, 99, 117, 87, 101, 97, 116, 104, 101, 114 >>

AccuWeatherCallback ==
    [moduleName |-> AccuWeatherName, callback |-> "accuWeatherCleanupCallback"]

InitAfterSetup ==
    ConstructedWith(U32(APP_LOW_THRESHOLD), U32(APP_CRITICAL_THRESHOLD),
                    << AccuWeatherCallback >>)

-----------------------------------------------------------------------------
(***************************************************************************)
(* Logger (logger.h, part_006).  A buffered entry and a printed line carry *)
(* the level of the message and, as an observation, whether that level was *)
(* below currentLogLevel when the entry point was called.                  *)
(***************************************************************************)
\* The public entry points: whether the caller passes the level, the level
\* of the entry points whose level is fixed, and whether the entry point
\* compares the level with currentLogLevel.
EntryPoint(levelArg, level, filtered) ==
    [levelArg |-> levelArg, level |-> level, filtered |-> filtered]

EntryPoints ==
    [ log      |-> EntryPoint(TRUE, DEBUG, TRUE),
      logf     |-> EntryPoint(TRUE, DEBUG, TRUE),
      debug    |-> EntryPoint(FALSE, DEBUG, TRUE),
      debugf   |-> EntryPoint(FALSE, DEBUG, TRUE),
      info     |-> EntryPoint(FALSE, INFO, TRUE),
      infof    |-> EntryPoint(FALSE, INFO, TRUE),
      warning  |-> EntryPoint(FALSE, WARNING, TRUE),
      warningf |-> EntryPoint(FALSE, WARNING, TRUE),
      error    |-> EntryPoint(FALSE, ERROR, TRUE),
      errorf   |-> EntryPoint(FALSE, ERROR, TRUE),
      print    |-> EntryPoint(FALSE, INFO, TRUE),
      println  |-> EntryPoint(FALSE, INFO, TRUE),
      printf   |-> EntryPoint(FALSE, INFO, FALSE) ]

EntryLevel(entry, level) ==
    IF EntryPoints[entry].levelArg THEN level ELSE EntryPoints[entry].level

\* if (level < currentLogLevel) return;
PassesFilter(entry, level) ==
    \/ ~EntryPoints[entry].filtered
    \/ ~(EntryLevel(entry, level) < currentLogLevel)

\* The file names init is called with (logger.h:36, part_004:186) and one
\* that generateLogFilename builds (part_006:480-499).
DefaultLogFile == "/log.txt"
BootLogFile == "/hoowachy_boot.log"
ConfigLogFile == "/hoowachy.log"
LogFileNames == {DefaultLogFile, BootLogFile, ConfigLogFile}

\* The file-writer task before its first cycle, the bus free, nothing on
\* the card.
InitWriter ==
    /\ spiMutex = 0
    /\ sdCard = << >>
    /\ writerPc = "check"
    /\ checkIndex = 0
    /\ bufferCopy = << >>
    /\ writeIndex = 0
    /\ moved = << >>

\* The logger before init (logger.h:93-101), with or without a terminal on
\* the UART.
ConstructedLogger(attached) ==
    /\ terminal = attached
    /\ serialOut = << >>
    /\ logMutex = NoMutex
    /\ bufferMutex = NoMutex
    /\ currentLogLevel = DEBUG
    /\ serialEnabled = TRUE
    /\ fileEnabled = FALSE
    /\ logFilePath = DefaultLogFile
    /\ logBuffer = << >>
    /\ logSeq = 0
    /\ InitWriter

InitLogger == ConstructedLogger(FALSE)

coordinatorVars == << memoryMutex, thresholdVars, leaseVars, callbackVars,
                     passVars, minimumFreeHeap, ghostLeaseVars >>

\* The fields Logger::init assigns, as they are.
SinkConfiguration ==
    [logMutex |-> logMutex, bufferMutex |-> bufferMutex,
     serialEnabled |-> serialEnabled, fileEnabled |-> fileEnabled,
     logFilePath |-> logFilePath]

\* init as it would be if it added the new sinks to those enabled before.
InitOutcomeMerging(logger, enableSerial, enableFile, logFileName, logCreated, bufferCreated) ==
    LET lm == IF logger.logMutex # NoMutex THEN logger.logMutex
              ELSE IF logCreated THEN 0 ELSE NoMutex
        bm == IF logger.bufferMutex # NoMutex THEN logger.bufferMutex
              ELSE IF bufferCreated THEN 0 ELSE NoMutex
    IN  IF lm = NoMutex THEN logger
        ELSE IF bm = NoMutex THEN [logger EXCEPT !.logMutex = lm]
        ELSE [logMutex |-> lm, bufferMutex |-> bm,
              serialEnabled |-> logger.serialEnabled \/ enableSerial,
              fileEnabled |-> logger.fileEnabled \/ enableFile,
              logFilePath |-> logFileName]

\* Logger::init (part_006:22-52): the fields it leaves.  Each
\* xSemaphoreCreateMutex may fail, and init returns where one does.
InitOutcome(logger, enableSerial, enableFile, logFileName, logCreated, bufferCreated) ==
    LET lm == IF logger.logMutex # NoMutex THEN logger.logMutex
              ELSE IF logCreated THEN 0 ELSE NoMutex
        bm == IF logger.bufferMutex # NoMutex THEN logger.bufferMutex
              ELSE IF bufferCreated THEN 0 ELSE NoMutex
    IN  IF lm = NoMutex THEN logger
        ELSE IF bm = NoMutex THEN [logger EXCEPT !.logMutex = lm]
        ELSE [logMutex |-> lm, bufferMutex |-> bm,
              serialEnabled |-> enableSerial,
              fileEnabled |-> enableFile,
              logFilePath |-> logFileName]

\* A call of Logger::init.
LoggerInit(enableSerial, enableFile, logFileName, logCreated, bufferCreated) ==
    LET after == InitOutcome(SinkConfiguration, enableSerial, enableFile,
                             logFileName, logCreated, bufferCreated)
    IN  /\ logMutex' = after.logMutex
        /\ bufferMutex' = after.bufferMutex
        /\ serialEnabled' = after.serialEnabled
        /\ fileEnabled' = after.fileEnabled
        /\ logFilePath' = after.logFilePath
        /\ NoReturn
        /\ UNCHANGED << currentLogLevel, logBuffer, logSeq, serialVars,
                        writerVars, coordinatorVars, weatherVars, freeHeap, pc, call,
                        budget >>

\* Logger::setLogLevel (part_006:54-59): nothing is done when the mutex does
\* not exist or is not obtained within 100 ms.
SetLogLevel(level) ==
    /\ IF logMutex = 0
       THEN currentLogLevel' = level
       ELSE UNCHANGED currentLogLevel
    /\ NoReturn
    /\ UNCHANGED << logMutex, bufferMutex, serialEnabled, fileEnabled,
                    logFilePath, logBuffer, logSeq, serialVars, writerVars,
                    coordinatorVars, weatherVars, freeHeap, pc, call, budget >>

\* Logger::initFromConfig (part_006:459-478): init(true,
\* config.logger.fileLoggingEnabled, the generated file name), then
\* setLogLevel(level), which does nothing when logMutex does not exist or is
\* held by a task for the 100 ms it waits.
InitFromConfig(level, enableFile, logCreated, bufferCreated) ==
    LET after == InitOutcome(SinkConfiguration, TRUE, enableFile,
                             ConfigLogFile, logCreated, bufferCreated)
    IN  /\ logMutex' = after.logMutex
        /\ bufferMutex' = after.bufferMutex
        /\ serialEnabled' = after.serialEnabled
        /\ fileEnabled' = after.fileEnabled
        /\ logFilePath' = after.logFilePath
        /\ currentLogLevel' = IF after.logMutex = 0 THEN level
                                                    ELSE currentLogLevel
        /\ lastExit' = "config:returned"
        /\ lastPass' = NoPass
        /\ serialLine' = NoLine
        /\ lastFlush' = NoFlush
        /\ UNCHANGED << logBuffer, logSeq, serialVars, writerVars,
                        coordinatorVars, weatherVars, freeHeap, pc, call,
                        leaseResult, budget >>

\* Serial as it would be if it put each line before those already sent.
SerialPrintFirst(out, line) == << line >> \o out

\* Serial.print / Serial.println (part_006:259, 270): the line follows what
\* was sent before it.
SerialPrint(out, line) == Append(out, line)

\* The call of task t returns, having printed line.
LogReturn(t, exit, line) ==
    /\ pc' = [pc EXCEPT ![t] = "idle"]
    /\ call' = [call EXCEPT ![t] = NoCall]
    /\ lastExit' = exit
    /\ lastPass' = NoPass
    /\ serialLine' = line
    /\ serialOut' = IF terminal /\ line # NoLine
                    THEN SerialPrint(serialOut, line)
                    ELSE serialOut
    /\ UNCHANGED terminal
    /\ lastFlush' = NoFlush
    /\ UNCHANGED leaseResult

\* An entry point (part_006:61-253) up to the xSemaphoreTake of writeLog
\* (255-265, 1000 ms).  Without a mutex writeLog prints the bare message.
LogCall(t, entry, level) ==
    LET l == EntryLevel(entry, level)
        below == l < currentLogLevel
    IN  /\ pc[t] = "idle"
        /\ IF ~PassesFilter(entry, level)
           THEN /\ LogReturn(t, "log:filtered", NoLine)
                /\ UNCHANGED << logMutex, logSeq >>
           ELSE IF logMutex = NoMutex
           THEN /\ LogReturn(t, "log:nomutex",
                             IF serialEnabled
                             THEN [formatted |-> FALSE, level |-> l,
                                   below |-> below, task |-> t,
                                   id |-> logSeq + 1]
                             ELSE NoLine)
                /\ logSeq' = logSeq + 1
                /\ UNCHANGED logMutex
           ELSE IF logMutex = 0
           THEN /\ logMutex' = t
                /\ pc' = [pc EXCEPT ![t] = "log_locked"]
                /\ call' = [call EXCEPT ![t] =
                       [fn |-> "writeLog", level |-> l, below |-> below,
                        id |-> logSeq + 1]]
                /\ logSeq' = logSeq + 1
                /\ NoReturn
                /\ UNCHANGED serialVars
           ELSE /\ LogReturn(t, "log:timeout", NoLine)
                /\ UNCHANGED << logMutex, logSeq >>
        /\ UNCHANGED << bufferMutex, currentLogLevel, serialEnabled, fileEnabled,
                        logFilePath, logBuffer, writerVars, coordinatorVars, weatherVars,
                        freeHeap >>

\* writeLog as it would be if addToBuffer waited for bufferMutex without a
\* timeout.
WriteLogLockedWaiting(t, alloc) ==
    LET entry == [level |-> call[t].level, below |-> call[t].below,
                  id |-> call[t].id]
        waits == /\ fileEnabled
                 /\ bufferMutex # NoMutex
                 /\ ~Lt32(freeHeap, U32(BUFFER_SKIP_HEAP))
    IN  /\ pc[t] = "log_locked"
        /\ waits => bufferMutex = 0
        /\ LogReturn(t, "log:written",
                     IF serialEnabled
                     THEN [formatted |-> TRUE, level |-> entry.level,
                           below |-> entry.below, task |-> t,
                           id |-> entry.id]
                     ELSE NoLine)
        /\ logBuffer' = IF fileEnabled THEN addToBuffer(entry, alloc) ELSE logBuffer
        /\ logMutex' = 0
        /\ UNCHANGED << bufferMutex, currentLogLevel, serialEnabled, fileEnabled,
                        logFilePath, logSeq, writerVars, coordinatorVars, weatherVars,
                        freeHeap, budget >>

\* writeLog with the mutex held (part_006:266-278).
WriteLogLocked(t, alloc) ==
    LET entry == [level |-> call[t].level, below |-> call[t].below,
                  id |-> call[t].id]
    IN  /\ pc[t] = "log_locked"
        /\ LogReturn(t, "log:written",
                     IF serialEnabled
                     THEN [formatted |-> TRUE, level |-> entry.level,
                           below |-> entry.below, task |-> t,
                           id |-> entry.id]
                     ELSE NoLine)
        /\ logBuffer' = IF fileEnabled THEN addToBuffer(entry, alloc) ELSE logBuffer
        /\ logMutex' = 0
        /\ UNCHANGED << bufferMutex, currentLogLevel, serialEnabled, fileEnabled,
                        logFilePath, logSeq, writerVars, coordinatorVars, weatherVars,
                        freeHeap, budget >>

-----------------------------------------------------------------------------
(***************************************************************************)
(* The file-writer task: runFileWriterTask (part_006:501-555) and the      *)
(* flushBufferToFile it calls (332-406).  Its MemoryManager calls are the  *)
(* actions of requestMemory and releaseMemory taken by LoggerTask; what    *)
(* they returned is kept in leaseResult until the flush reads it.          *)
(***************************************************************************)
CHECKS_PER_CYCLE == 15         \* for (int i = 0; i < 15; i++)
FLUSH_HEAP == 12288            \* if (freeHeap >= 12288) flushBufferToFile()
FLUSH_BYTES == 2048            \* the estimate of the flush's lease
WRITE_ABORT_HEAP == 2048       \* if (ESP.getFreeHeap() < 2048) break
RESERVE_ENTRY_BYTES == 100
RESERVE_MARGIN == 4096
CHUNK_SIZE == 10               \* the catch block of the move

\* MAX_BUFFER_SIZE * 100 + 4096 (line 365)
ReserveHeap == MAX_BUFFER_SIZE * RESERVE_ENTRY_BYTES + RESERVE_MARGIN

\* Another task that uses the SPI bus (display.cpp:59, config_manager.cpp:43).
BusTask == 4

\* What a step of the writer outside the MemoryManager leaves alone.
WriterFrame ==
    UNCHANGED << logMutex, currentLogLevel, serialEnabled, fileEnabled,
                 logFilePath, logSeq, serialVars, coordinatorVars, weatherVars, freeHeap,
                 pc, call, budget >>

\* The observations of a step of the writer that ends with exit.
WriterExit(exit, flush) ==
    /\ lastExit' = exit
    /\ lastPass' = NoPass
    /\ serialLine' = NoLine
    /\ lastFlush' = flush

\* A flush that ended having taken moved out of logBuffer and printed
\* written to the file.
FlushEnded(movedOut, written, aborted) ==
    [ended |-> TRUE, moved |-> movedOut, written |-> written,
     aborted |-> aborted]

\* The end of one pass of the for loop (line 507).
NextCheck ==
    IF checkIndex + 1 < CHECKS_PER_CYCLE
    THEN /\ writerPc' = "check"
         /\ checkIndex' = checkIndex + 1
    ELSE /\ writerPc' = "cycle"
         /\ checkIndex' = 0

\* Lines 508-526 up to the vTaskDelay inside MEMORY_FORCE_GC, which is
\* forceGarbageCollection (memory_manager.cpp:272-277).  The take of line
\* 514 waits 50 ms.
WriterCheck ==
    /\ writerPc = "check"
    /\ IF isMemoryCritical /\ bufferMutex = 0 /\ logBuffer # << >>
       THEN /\ logBuffer' = << >>
            /\ bufferMutex' = LoggerTask
            /\ writerPc' = "gc"
            /\ UNCHANGED checkIndex
       ELSE /\ NextCheck
            /\ UNCHANGED << logBuffer, bufferMutex >>
    /\ NoReturn
    /\ UNCHANGED << spiMutex, sdCard, bufferCopy, writeIndex, moved >>
    /\ WriterFrame

\* forceGarbageCollection returns; line 524 gives the mutex.
WriterGcDone ==
    /\ writerPc = "gc"
    /\ bufferMutex' = 0
    /\ NextCheck
    /\ WriterExit("check:cleared", NoFlush)
    /\ UNCHANGED << logBuffer, leaseResult, spiMutex, sdCard, bufferCopy,
                    writeIndex, moved >>
    /\ WriterFrame

\* The cycle as it would be without the test of line 546.
WriterCycleAnyHeap ==
    /\ writerPc = "cycle"
    /\ writerPc' = IF fileEnabled /\ bufferMutex # NoMutex THEN "flush"
                                                           ELSE "check"
    /\ NoReturn
    /\ UNCHANGED << logBuffer, bufferMutex, spiMutex, sdCard, checkIndex,
                    bufferCopy, writeIndex, moved >>
    /\ WriterFrame

\* The cycle as it would be without the test of line 530.
WriterCycleAnySink ==
    /\ writerPc = "cycle"
    /\ writerPc' = IF /\ Ge32(freeHeap, U32(FLUSH_HEAP))
                      /\ bufferMutex # NoMutex
                   THEN "flush"
                   ELSE "check"
    /\ NoReturn
    /\ UNCHANGED << logBuffer, bufferMutex, spiMutex, sdCard, checkIndex,
                    bufferCopy, writeIndex, moved >>
    /\ WriterFrame

\* Lines 529-553, and line 333 of the flushBufferToFile they call.  setup()
\* does not go on without spiMutex (part_004:198-203).
WriterCycle ==
    /\ writerPc = "cycle"
    /\ writerPc' = IF /\ fileEnabled
                      /\ Ge32(freeHeap, U32(FLUSH_HEAP))
                      /\ bufferMutex # NoMutex
                   THEN "flush"
                   ELSE "check"
    /\ NoReturn
    /\ UNCHANGED << logBuffer, bufferMutex, spiMutex, sdCard, checkIndex,
                    bufferCopy, writeIndex, moved >>
    /\ WriterFrame

\* Line 336: MEMORY_REQUEST(CONFIG_OPERATION, BACKGROUND, 2048, "Logger-Flush").
FlushRequest ==
    /\ writerPc = "flush"
    /\ leaseResult[LoggerTask] = "none"
    /\ RequestMemory(LoggerTask, CONFIG_OPERATION, BACKGROUND, U32(FLUSH_BYTES),
                     FlushName)
    /\ UNCHANGED budget

\* Lines 336-354: the request has returned; bufferCopy.reserve may throw.
FlushReserve(reserved) ==
    /\ writerPc = "flush"
    /\ pc[LoggerTask] = "idle"
    /\ leaseResult[LoggerTask] # "none"
    /\ leaseResult' = [leaseResult EXCEPT ![LoggerTask] = "none"]
    /\ IF leaseResult[LoggerTask] \notin GrantExits
       THEN /\ writerPc' = "check"
            /\ WriterExit("flush:denied", NoFlush)
       ELSE /\ writerPc' = IF reserved THEN "move" ELSE "release"
            /\ WriterExit("none", NoFlush)
    /\ UNCHANGED << logBuffer, bufferMutex, spiMutex, sdCard, checkIndex,
                    bufferCopy, writeIndex, moved >>
    /\ WriterFrame

\* The move as it would be without the xSemaphoreGive of line 375.
FlushMoveKeeping(alloc) ==
    LET taken == bufferMutex = 0 /\ logBuffer # << >>
        reserves == ~Ge32(U32(ReserveHeap), freeHeap)
        emptied == << >>
        chunkSize == Min(CHUNK_SIZE, Len(emptied))
        copy == IF ~taken THEN << >>
                ELSE IF reserves /\ alloc # "ok"
                THEN SubSeq(emptied, 1, chunkSize)
                ELSE logBuffer
    IN  /\ writerPc = "move"
        /\ logBuffer' = IF taken THEN << >> ELSE logBuffer
        /\ IF copy # << >>
           THEN /\ bufferCopy' = copy
                /\ moved' = logBuffer
                /\ writerPc' = "open"
                /\ WriterExit("none", NoFlush)
           ELSE /\ writerPc' = "release"
                /\ WriterExit("flush:ended",
                              FlushEnded(IF taken THEN logBuffer ELSE << >>,
                                         << >>, FALSE))
                /\ UNCHANGED << bufferCopy, moved >>
        /\ bufferMutex' = IF taken THEN LoggerTask ELSE bufferMutex
        /\ UNCHANGED << leaseResult, spiMutex, sdCard, checkIndex, writeIndex >>
        /\ WriterFrame

\* The move as it would be if it copied the buffer and left it as it is.
FlushMoveCopies(alloc) ==
    /\ writerPc = "move"
    /\ IF bufferMutex = 0 /\ logBuffer # << >>
       THEN /\ bufferCopy' = logBuffer
            /\ moved' = logBuffer
            /\ writerPc' = "open"
            /\ WriterExit("none", NoFlush)
       ELSE /\ writerPc' = "release"
            /\ WriterExit("flush:ended", FlushEnded(<< >>, << >>, FALSE))
            /\ UNCHANGED << bufferCopy, moved >>
    /\ UNCHANGED << logBuffer, bufferMutex, leaseResult, spiMutex, sdCard,
                    checkIndex, writeIndex >>
    /\ WriterFrame

\* Lines 357-376 and the test of line 379.  The take waits 1000 ms.  The
\* move empties logBuffer; logBuffer.reserve is then called when more than
\* ReserveHeap bytes are free, and when it throws the catch block assigns the
\* first min(10, logBuffer.size()) entries of the emptied logBuffer to
\* bufferCopy.
FlushMove(alloc) ==
    LET taken == bufferMutex = 0 /\ logBuffer # << >>
        reserves == ~Ge32(U32(ReserveHeap), freeHeap)
        emptied == << >>
        chunkSize == Min(CHUNK_SIZE, Len(emptied))
        copy == IF ~taken THEN << >>
                ELSE IF reserves /\ alloc # "ok"
                THEN SubSeq(emptied, 1, chunkSize)
                ELSE logBuffer
    IN  /\ writerPc = "move"
        /\ logBuffer' = IF taken THEN << >> ELSE logBuffer
        /\ IF copy # << >>
           THEN /\ bufferCopy' = copy
                /\ moved' = logBuffer
                /\ writerPc' = "open"
                /\ WriterExit("none", NoFlush)
           ELSE /\ writerPc' = "release"
                /\ WriterExit("flush:ended",
                              FlushEnded(IF taken THEN logBuffer ELSE << >>,
                                         << >>, FALSE))
                /\ UNCHANGED << bufferCopy, moved >>
        /\ UNCHANGED << bufferMutex, leaseResult, spiMutex, sdCard, checkIndex,
                        writeIndex >>
        /\ WriterFrame

\* Lines 380-382: the take of spiMutex waits 2000 ms; SD.open may fail.
FlushOpen(opened) ==
    /\ writerPc = "open"
    /\ IF spiMutex = 0 /\ opened
       THEN /\ spiMutex' = LoggerTask
            /\ writerPc' = "write"
            /\ WriterExit("none", NoFlush)
            /\ UNCHANGED << bufferCopy, moved >>
       ELSE /\ writerPc' = "release"
            /\ WriterExit("flush:ended", FlushEnded(moved, << >>, FALSE))
            /\ bufferCopy' = << >>
            /\ moved' = << >>
            /\ UNCHANGED spiMutex
    /\ UNCHANGED << logBuffer, bufferMutex, leaseResult, sdCard, checkIndex,
                    writeIndex >>
    /\ WriterFrame

\* One pass of the write loop (lines 384-399), or its end (400-402).
FlushWrite ==
    /\ writerPc = "write"
    /\ IF /\ writeIndex < Len(bufferCopy)
          /\ ~Lt32(freeHeap, U32(WRITE_ABORT_HEAP))
       THEN /\ sdCard' = Append(sdCard, bufferCopy[writeIndex + 1])
            /\ writeIndex' = writeIndex + 1
            /\ WriterExit("none", NoFlush)
            /\ UNCHANGED << spiMutex, writerPc, bufferCopy, moved >>
       ELSE /\ spiMutex' = 0
            /\ writerPc' = "release"
            /\ WriterExit("flush:ended",
                          FlushEnded(moved, SubSeq(bufferCopy, 1, writeIndex),
                                     writeIndex < Len(bufferCopy)))
            /\ bufferCopy' = << >>
            /\ writeIndex' = 0
            /\ moved' = << >>
            /\ UNCHANGED sdCard
    /\ UNCHANGED << logBuffer, bufferMutex, leaseResult, checkIndex >>
    /\ WriterFrame

\* Lines 352 and 405: MEMORY_RELEASE(CONFIG_OPERATION, "Logger-Flush").
FlushRelease ==
    /\ writerPc = "release"
    /\ leaseResult[LoggerTask] = "none"
    /\ ReleaseMemory(LoggerTask, "releaseMemory", CONFIG_OPERATION, FlushName)
    /\ UNCHANGED budget

\* flushBufferToFile returns to the cycle of runFileWriterTask.
FlushReturn ==
    /\ writerPc = "release"
    /\ pc[LoggerTask] = "idle"
    /\ leaseResult[LoggerTask] # "none"
    /\ leaseResult' = [leaseResult EXCEPT ![LoggerTask] = "none"]
    /\ writerPc' = "check"
    /\ WriterExit("flush:returned", NoFlush)
    /\ UNCHANGED << logBuffer, bufferMutex, spiMutex, sdCard, checkIndex,
                    bufferCopy, writeIndex, moved >>
    /\ WriterFrame

\* Another task takes or gives the bus.
BusChanges ==
    /\ spiMutex \in {0, BusTask}
    /\ spiMutex' = IF spiMutex = 0 THEN BusTask ELSE 0
    /\ NoReturn
    /\ UNCHANGED << logBuffer, bufferMutex, sdCard, writerPc, checkIndex,
                    bufferCopy, writeIndex, moved >>
    /\ WriterFrame

-----------------------------------------------------------------------------
(***************************************************************************)
(* The weather task: fetchWeatherData (part_010:628-835) and the           *)
(* parseWeatherData it calls (837-1032), which may hand over to            *)
(* parseWeatherDataSimple (1034-1174).  Run calls fetchWeatherData every   *)
(* 30 minutes, 30 seconds after a failure (213-278).  What the network and *)
(* the parser produce is an input of the step that reads it.               *)
(***************************************************************************)
WEATHER_BYTES == 8192          \* the estimate of both leases

\* How the part of fetchWeatherData between its request and its parse
\* ends: no API key or city (640), no WiFi (651), no usable payload (762,
\* 773, 800-833), or a payload to parse.
FetchOutcomes == {"unconfigured", "nowifi", "nopayload", "payload"}

\* How parseWeatherData ends once it holds its lease, and whether that
\* path calls MEMORY_RELEASE before it returns: an error response (856-863),
\* DeserializationError::NoMemory and the return of parseWeatherDataSimple
\* (875-877), another deserialization error (879-884), a document that is
\* no array (890-895), no forecast kept (1011-1015), forecasts saved
\* (1017-1031).
ParseReleases ==
    [ errorResponse |-> TRUE,
      simpleParse   |-> FALSE,
      invalidJson   |-> FALSE,
      notArray      |-> FALSE,
      noForecasts   |-> FALSE,
      parsed        |-> TRUE ]

\* Whether the path of parseWeatherData taken on outcome releases the lease.
ParsePathReleases(outcome) == ParseReleases[outcome]

\* What a step of the weather task outside the MemoryManager leaves alone.
WeatherFrame ==
    UNCHANGED << loggerVars, coordinatorVars, freeHeap, pc, call, budget >>

\* The observations of a step of the weather task that ends with exit.
WeatherExit(exit) ==
    /\ lastExit' = exit
    /\ lastPass' = NoPass
    /\ serialLine' = NoLine
    /\ lastFlush' = NoFlush
    /\ leaseResult' = [leaseResult EXCEPT ![WeatherTask] = "none"]

\* Line 630: MEMORY_REQUEST(HTTP_REQUEST, NORMAL, 8192, "AccuWeather-Fetch").
FetchRequest ==
    /\ weatherPc = "idle"
    /\ leaseResult[WeatherTask] = "none"
    /\ RequestMemory(WeatherTask, HTTP_REQUEST, NORMAL, U32(WEATHER_BYTES),
                     FetchName)
    /\ UNCHANGED budget

\* Lines 630-782: the request has returned; without the lease
\* fetchWeatherData returns, with it the configuration, the WiFi and the
\* HTTP exchange decide whether there is a payload to parse.
FetchExchange(outcome) ==
    /\ weatherPc = "idle"
    /\ pc[WeatherTask] = "idle"
    /\ leaseResult[WeatherTask] # "none"
    /\ IF leaseResult[WeatherTask] \notin GrantExits
       THEN /\ weatherPc' = "idle"
            /\ WeatherExit("fetch:nomemory")
       ELSE /\ weatherPc' = IF outcome = "payload" THEN "parse"
                                                   ELSE "fetch_release"
            /\ WeatherExit("none")
    /\ WeatherFrame

\* Line 839: MEMORY_REQUEST(JSON_PARSING, NORMAL, 8192, "AccuWeather-Parse").
ParseRequest ==
    /\ weatherPc = "parse"
    /\ leaseResult[WeatherTask] = "none"
    /\ RequestMemory(WeatherTask, JSON_PARSING, NORMAL, U32(WEATHER_BYTES),
                     ParseName)
    /\ UNCHANGED budget

\* Lines 839-1029, 1034-1173: the request has returned; without the lease
\* parseWeatherData returns, with it the payload decides the path.
ParseDocument(outcome) ==
    /\ weatherPc = "parse"
    /\ pc[WeatherTask] = "idle"
    /\ leaseResult[WeatherTask] # "none"
    /\ IF leaseResult[WeatherTask] \notin GrantExits
       THEN /\ weatherPc' = "fetch_release"
            /\ WeatherExit("parse:nomemory")
       ELSE IF ParsePathReleases(outcome)
       THEN /\ weatherPc' = "parse_release"
            /\ WeatherExit("none")
       ELSE /\ weatherPc' = "fetch_release"
            /\ WeatherExit("parse:returned")
    /\ WeatherFrame

\* Lines 862 and 1030: MEMORY_RELEASE(JSON_PARSING, "AccuWeather-Parse").
ParseRelease ==
    /\ weatherPc = "parse_release"
    /\ leaseResult[WeatherTask] = "none"
    /\ ReleaseMemory(WeatherTask, "releaseMemory", JSON_PARSING, ParseName)
    /\ UNCHANGED budget

\* parseWeatherData returns to fetchWeatherData (line 784).
ParseReturn ==
    /\ weatherPc = "parse_release"
    /\ pc[WeatherTask] = "idle"
    /\ leaseResult[WeatherTask] # "none"
    /\ weatherPc' = "fetch_release"
    /\ WeatherExit("parse:returned")
    /\ WeatherFrame

\* Lines 647, 657, 768, 780, 789, 797, 824, 832:
\* MEMORY_RELEASE(HTTP_REQUEST, "AccuWeather-Fetch").
FetchRelease ==
    /\ weatherPc = "fetch_release"
    /\ leaseResult[WeatherTask] = "none"
    /\ ReleaseMemory(WeatherTask, "releaseMemory", HTTP_REQUEST, FetchName)
    /\ UNCHANGED budget

\* fetchWeatherData returns to the loop of Run.
FetchReturn ==
    /\ weatherPc = "fetch_release"
    /\ pc[WeatherTask] = "idle"
    /\ leaseResult[WeatherTask] # "none"
    /\ weatherPc' = "idle"
    /\ WeatherExit("fetch:returned")
    /\ WeatherFrame

-----------------------------------------------------------------------------
(***************************************************************************)
(* The environment: how many calls of a kind the tasks may still issue.    *)
(***************************************************************************)
Spend(kind) ==
    /\ budget[kind] > 0
    /\ budget' = [budget EXCEPT ![kind] = @ - 1]

NoBudget == [releases |-> 0, calls |-> 0, registers |-> 0, logs |-> 0]

ReleaseFns == {"releaseMemory", "releaseMemoryQuiet"}

(***************************************************************************)
(* Spec: the lease table under two client tasks after setup().  The        *)
(* identity (HTTP_REQUEST, "A") is requested without limit, which is what  *)
(* fills the sixteen slots.  Release calls, for that identity or for the   *)
(* empty name, are limited to MaxReleaseCalls.                             *)
(***************************************************************************)
MaxReleaseCalls == 2

Releases == { << HTTP_REQUEST, NameA >>, << JSON_PARSING, EmptyName >> }

Init ==
    /\ InitAfterSetup
    /\ InitLogger
    /\ budget = [NoBudget EXCEPT !.releases = MaxReleaseCalls]

ClientRequest(t) ==
    /\ RequestMemory(t, HTTP_REQUEST, NORMAL, U32(3000), NameA)
    /\ UNCHANGED budget

ClientRequestQuiet(t) ==
    /\ RequestMemoryQuiet(t, HTTP_REQUEST, NORMAL, U32(3000), NameA)
    /\ UNCHANGED budget

ClientRelease(t, fn, r) ==
    /\ Spend("releases")
    /\ ReleaseMemory(t, fn, r[1], r[2])

Next ==
    \/ \E t \in Tasks : ClientRequest(t)
    \/ \E t \in Tasks : ClientRequestQuiet(t)
    \/ \E t \in Tasks, fn \in ReleaseFns, r \in Releases : ClientRelease(t, fn, r)
    \/ \E t \in Tasks : RequestMemoryLocked(t)
    \/ \E t \in Tasks : CleanupInvoke(t)
    \/ \E t \in Tasks : CleanupFinish(t)
    \/ \E t \in Tasks : WaitForMemoryAvailable(t)
    \/ \E t \in Tasks : WaitForMemoryTimeout(t)
    \/ \E t \in Tasks : RequestMemoryRetake(t)
    \/ \E t \in Tasks : RequestMemoryRelocked(t)
    \/ \E t \in Tasks : RequestMemoryQuietLocked(t)
    \/ \E t \in Tasks : ReleaseMemoryLocked(t)
    \/ \E h \in HeapLevels : HeapChanges(h)

Spec == Init /\ [][Next]_vars

(***************************************************************************)
(* SpecNames: the same two tasks issuing at most MaxCalls calls, with      *)
(* arguments drawn from every kind of owner name: one that fits, one that  *)
(* does not, the empty name and nullptr.                                   *)
(***************************************************************************)
MaxCalls == 4

NamedRequests ==
    { << HTTP_REQUEST, NORMAL, U32(3000), NameA >>,
      << JSON_PARSING, CRITICAL, U32(3000), LongName >>,
      << HTTP_REQUEST, NORMAL, U32(3000), NullName >> }

NamedReleases ==
    { << HTTP_REQUEST, NameA >>, << JSON_PARSING, LongName >>,
      << JSON_PARSING, EmptyName >>, << JSON_PARSING, NameA >>,
      << HTTP_REQUEST, NullName >> }

InitNames ==
    /\ InitAfterSetup
    /\ InitLogger
    /\ budget = [NoBudget EXCEPT !.calls = MaxCalls]

NamedRequest(t, r) ==
    /\ Spend("calls")
    /\ RequestMemory(t, r[1], r[2], r[3], r[4])

NamedRequestQuiet(t, r) ==
    /\ Spend("calls")
    /\ RequestMemoryQuiet(t, r[1], r[2], r[3], r[4])

NamedRelease(t, fn, r) ==
    /\ Spend("calls")
    /\ ReleaseMemory(t, fn, r[1], r[2])

NextNames ==
    \/ \E t \in Tasks, r \in NamedRequests : NamedRequest(t, r)
    \/ \E t \in Tasks, r \in NamedRequests : NamedRequestQuiet(t, r)
    \/ \E t \in Tasks, fn \in ReleaseFns, r \in NamedReleases :
          NamedRelease(t, fn, r)
    \/ \E t \in Tasks : RequestMemoryLocked(t)
    \/ \E t \in Tasks : CleanupInvoke(t)
    \/ \E t \in Tasks : CleanupFinish(t)
    \/ \E t \in Tasks : WaitForMemoryAvailable(t)
    \/ \E t \in Tasks : WaitForMemoryTimeout(t)
    \/ \E t \in Tasks : RequestMemoryRetake(t)
    \/ \E t \in Tasks : RequestMemoryRelocked(t)
    \/ \E t \in Tasks : RequestMemoryQuietLocked(t)
    \/ \E t \in Tasks : ReleaseMemoryLocked(t)
    \/ \E h \in HeapLevels : HeapChanges(h)

SpecNames == InitNames /\ [][NextNames]_vars

\* SpecNames with the scheduler running every task that is inside requestMemory,
\* and every cleanup callback returning; tasks inside other calls, and the
\* heap, may stop anywhere.
RequestMemoryStep(t) ==
    \/ RequestMemoryLocked(t)
    \/ CleanupInvoke(t)
    \/ CleanupFinish(t)
    \/ WaitForMemoryAvailable(t)
    \/ WaitForMemoryTimeout(t)
    \/ RequestMemoryRetake(t)
    \/ RequestMemoryRelocked(t)

RequestsProceed == \A t \in Tasks : WF_vars(RequestMemoryStep(t))

SpecNamesFair == SpecNames /\ RequestsProceed

(***************************************************************************)
(* SpecAdmit: the admission rule, after setup().  The thresholds are set   *)
(* through the setters to any of AdmitThresholds, the heap moves over      *)
(* AdmitHeapLevels, and one client at a time requests AdmitBytes at every  *)
(* priority and releases what it was granted.                              *)
(***************************************************************************)
AdmitThresholds == {U32(5000), U32(10000), U32(20000)}

AdmitHeapLevels == {U32(8000), U32(13000), U32(30000)}

\* 3000 bytes, and 2^32 - 3000 bytes.
AdmitBytes == {U32(3000), << Half - 1, Half - 3000 >>}

Priorities == BACKGROUND .. CRITICAL

AllIdle == \A t \in Tasks : pc[t] = "idle"

InitAdmit ==
    /\ InitAfterSetup
    /\ InitLogger
    /\ budget = NoBudget

AdmitRequest(t, priority, bytes) ==
    /\ AllIdle
    /\ activeOperationCount = 0
    /\ RequestMemory(t, HTTP_REQUEST, priority, bytes, NameA)
    /\ UNCHANGED budget

AdmitRequestQuiet(t, priority, bytes) ==
    /\ AllIdle
    /\ activeOperationCount = 0
    /\ RequestMemoryQuiet(t, HTTP_REQUEST, priority, bytes, NameA)
    /\ UNCHANGED budget

AdmitRelease(t, fn) ==
    /\ AllIdle
    /\ activeOperationCount = 1
    /\ ReleaseMemory(t, fn, HTTP_REQUEST, NameA)
    /\ UNCHANGED budget

NextAdmit ==
    \/ \E t \in Tasks, p \in Priorities, b \in AdmitBytes : AdmitRequest(t, p, b)
    \/ \E t \in Tasks, p \in Priorities, b \in AdmitBytes :
          AdmitRequestQuiet(t, p, b)
    \/ \E t \in Tasks, fn \in ReleaseFns : AdmitRelease(t, fn)
    \/ \E low \in AdmitThresholds : SetLowMemoryThreshold(low)
    \/ \E critical \in AdmitThresholds : SetCriticalMemoryThreshold(critical)
    \/ SetDefaultThresholds(U32(DEFAULT_LOW_THRESHOLD),
                            U32(DEFAULT_CRITICAL_THRESHOLD))
    \/ \E t \in Tasks : RequestMemoryLocked(t)
    \/ \E t \in Tasks : CleanupInvoke(t)
    \/ \E t \in Tasks : CleanupFinish(t)
    \/ \E t \in Tasks : WaitForMemoryAvailable(t)
    \/ \E t \in Tasks : WaitForMemoryTimeout(t)
    \/ \E t \in Tasks : RequestMemoryRetake(t)
    \/ \E t \in Tasks : RequestMemoryRelocked(t)
    \/ \E t \in Tasks : RequestMemoryQuietLocked(t)
    \/ \E t \in Tasks : ReleaseMemoryLocked(t)
    \/ \E h \in AdmitHeapLevels : HeapChanges(h)

SpecAdmit == InitAdmit /\ [][NextAdmit]_vars

(***************************************************************************)
(* SpecCallbacks: two tasks registering cleanup callbacks and running      *)
(* cleanup passes, from the state the constructor leaves.  The owner       *)
(* "AccuWeather" registers again and again; other registrations, valid or  *)
(* not, are limited to MaxOtherRegistrations; the tasks stop registering   *)
(* once MaxRegistrations entries have been written.                        *)
(***************************************************************************)
MaxRegistrations == 11

MaxOtherRegistrations == 1

OtherRegistrations ==
    { << NameB, "callbackB" >>, << NullName, "callbackB" >>,
      << NameB, "nullptr" >> }

InitCallbacks ==
    /\ InitCoordinator
    /\ InitLogger
    /\ budget = [NoBudget EXCEPT !.registers = MaxOtherRegistrations]

RegisterAgain(t) ==
    /\ Len(registered) < MaxRegistrations
    /\ RegisterCleanupCallback(t, AccuWeatherName, "accuWeatherCleanupCallback")
    /\ UNCHANGED budget

RegisterOther(t, r) ==
    /\ Len(registered) < MaxRegistrations
    /\ Spend("registers")
    /\ RegisterCleanupCallback(t, r[1], r[2])

CleanupPass(t) ==
    /\ PerformGlobalCleanup(t)
    /\ UNCHANGED budget

NextCallbacks ==
    \/ \E t \in Tasks : RegisterAgain(t)
    \/ \E t \in Tasks, r \in OtherRegistrations : RegisterOther(t, r)
    \/ \E t \in Tasks : CleanupPass(t)
    \/ \E t \in Tasks : RegisterTake(t)
    \/ \E t \in Tasks : RegisterLocked(t)
    \/ \E t \in Tasks : CleanupInvoke(t)
    \/ \E t \in Tasks : CleanupFinish(t)

SpecCallbacks == InitCallbacks /\ [][NextCallbacks]_vars

(***************************************************************************)
(* SpecLog: two tasks issuing at most MaxLogCalls log calls through any    *)
(* entry point, while the logger is initialised, its level is set and the  *)
(* heap moves across the thresholds of addToBuffer.                        *)
(***************************************************************************)
MaxLogCalls == 3

LogHeapLevels == {U32(5000), U32(8000), U32(30000)}

LogCalls ==
    {c \in (DOMAIN EntryPoints) \X LogLevels :
        EntryPoints[c[1]].levelArg \/ EntryPoints[c[1]].level = c[2]}

AllocOutcomes == {"ok", "once", "twice"}

InitLog ==
    /\ InitAfterSetup
    /\ InitLogger
    /\ budget = [NoBudget EXCEPT !.logs = MaxLogCalls]

Log(t, c) ==
    /\ Spend("logs")
    /\ LogCall(t, c[1], c[2])

NextLog ==
    \/ \E s, f, lc, bc \in BOOLEAN : LoggerInit(s, f, BootLogFile, lc, bc)
    \/ \E level \in LogLevels : SetLogLevel(level)
    \/ \E t \in Tasks, c \in LogCalls : Log(t, c)
    \/ \E t \in Tasks, a \in AllocOutcomes : WriteLogLocked(t, a)
    \/ \E h \in LogHeapLevels : HeapChanges(h)

SpecLog == InitLog /\ [][NextLog]_vars

(***************************************************************************)
(* SpecInit: init called again and again with every combination of sinks   *)
(* and file names, before, between and during at most MaxInitLogs log      *)
(* calls.                                                                  *)
(***************************************************************************)
MaxInitLogs == 2

InitInit ==
    /\ InitAfterSetup
    /\ InitLogger
    /\ budget = [NoBudget EXCEPT !.logs = MaxInitLogs]

NextInit ==
    \/ \E s, f, lc, bc \in BOOLEAN, n \in LogFileNames :
           LoggerInit(s, f, n, lc, bc)
    \/ \E level \in {INFO, WARNING} : SetLogLevel(level)
    \/ \E t \in Tasks : Log(t, << "info", INFO >>)
    \/ \E t \in Tasks : WriteLogLocked(t, "ok")

SpecInit == InitInit /\ [][NextInit]_vars

(***************************************************************************)
(* SpecOrder: two tasks issuing at most MaxOrderLogs log calls with a      *)
(* terminal recording the UART, while init creates the mutexes and         *)
(* switches the Serial sink on and off and the level is set.               *)
(***************************************************************************)
MaxOrderLogs == 4

OrderCalls == { << "info", INFO >>, << "debug", DEBUG >>, << "printf", INFO >> }

InitOrder ==
    /\ InitAfterSetup
    /\ ConstructedLogger(TRUE)
    /\ budget = [NoBudget EXCEPT !.logs = MaxOrderLogs]

NextOrder ==
    \/ \E s, lc, bc \in BOOLEAN : LoggerInit(s, FALSE, BootLogFile, lc, bc)
    \/ \E level \in {DEBUG, INFO} : SetLogLevel(level)
    \/ \E t \in Tasks, c \in OrderCalls : Log(t, c)
    \/ \E t \in Tasks : WriteLogLocked(t, "ok")

SpecOrder == InitOrder /\ [][NextOrder]_vars

(***************************************************************************)
(* SpecWeather: the weather task fetching and parsing again and again      *)
(* after setup(), every outcome of the exchange and of the parse being     *)
(* possible each time, while the heap moves.                               *)
(***************************************************************************)
InitWeather ==
    /\ InitAfterSetup
    /\ InitLogger
    /\ budget = NoBudget

NextWeather ==
    \/ FetchRequest
    \/ \E o \in FetchOutcomes : FetchExchange(o)
    \/ ParseRequest
    \/ \E o \in DOMAIN ParseReleases : ParseDocument(o)
    \/ ParseRelease
    \/ ParseReturn
    \/ FetchRelease
    \/ FetchReturn
    \/ RequestMemoryLocked(WeatherTask)
    \/ CleanupInvoke(WeatherTask)
    \/ CleanupFinish(WeatherTask)
    \/ WaitForMemoryAvailable(WeatherTask)
    \/ WaitForMemoryTimeout(WeatherTask)
    \/ RequestMemoryRetake(WeatherTask)
    \/ RequestMemoryRelocked(WeatherTask)
    \/ ReleaseMemoryLocked(WeatherTask)
    \/ \E h \in HeapLevels : HeapChanges(h)

SpecWeather == InitWeather /\ [][NextWeather]_vars

(***************************************************************************)
(* SpecWriter: the file-writer task running its cycles after setup() and   *)
(* initFromConfig() with file logging enabled and logLevel WARNING, so     *)
(* that the buffer holds the lines of the tasks only, while two tasks      *)
(* issue at most MaxWriterLogs LOG_WARNING calls, another task uses the    *)
(* bus and the heap moves across the thresholds of the logger.             *)
(***************************************************************************)
MaxWriterLogs == 3

WriterHeapLevels == {U32(1000), U32(8000), U32(30000)}

\* logBuffer after n log calls of a level on an empty buffer, made with
\* plenty of heap.
Filled(level, n) == [i \in 1 .. n |-> [level |-> level, below |-> FALSE, id |-> i]]

\* The logger after initFromConfig() with the file sink on and logLevel
\* level in the configuration (part_006:458-478), and after as many log
\* calls of that level as one of fills.
InitConfigured(level, fills) ==
    /\ terminal = FALSE
    /\ serialOut = << >>
    /\ logMutex = 0
    /\ bufferMutex = 0
    /\ currentLogLevel = level
    /\ serialEnabled = TRUE
    /\ fileEnabled = TRUE
    /\ logFilePath = ConfigLogFile
    /\ logSeq \in fills
    /\ logBuffer = Filled(level, logSeq)
    /\ InitWriter

InitWriterSpec ==
    /\ InitAfterSetup
    /\ InitConfigured(WARNING, {0})
    /\ budget = [NoBudget EXCEPT !.logs = MaxWriterLogs]

\* LOG_INFO(...) by a client task.
LogInfo(t) ==
    /\ Spend("logs")
    /\ LogCall(t, "info", INFO)

\* LOG_WARNING(...) by a client task.
LogWarning(t) ==
    /\ Spend("logs")
    /\ LogCall(t, "warning", WARNING)

NextWriter ==
    \/ \E t \in Tasks : LogWarning(t)
    \/ \E t \in Tasks, a \in AllocOutcomes : WriteLogLocked(t, a)
    \/ WriterCheck
    \/ WriterGcDone
    \/ WriterCycle
    \/ FlushRequest
    \/ RequestMemoryLocked(LoggerTask)
    \/ CleanupInvoke(LoggerTask)
    \/ CleanupFinish(LoggerTask)
    \/ WaitForMemoryAvailable(LoggerTask)
    \/ WaitForMemoryTimeout(LoggerTask)
    \/ RequestMemoryRetake(LoggerTask)
    \/ RequestMemoryRelocked(LoggerTask)
    \/ \E reserved \in BOOLEAN : FlushReserve(reserved)
    \/ \E a \in AllocOutcomes : FlushMove(a)
    \/ \E opened \in BOOLEAN : FlushOpen(opened)
    \/ FlushWrite
    \/ FlushRelease
    \/ ReleaseMemoryLocked(LoggerTask)
    \/ FlushReturn
    \/ BusChanges
    \/ \E h \in WriterHeapLevels : HeapChanges(h)

SpecWriter == InitWriterSpec /\ [][NextWriter]_vars

\* SpecWriter with the scheduler running every task that is inside a log
\* call; the file-writer task and the other tasks may stop anywhere.
LogCallsProceed ==
    \A t \in Tasks : WF_vars(\E a \in AllocOutcomes : WriteLogLocked(t, a))

SpecWriterFair == SpecWriter /\ LogCallsProceed

(***************************************************************************)
(* SpecBuffer: the same tasks with the buffer near its capacities when the *)
(* run starts, and the heap moving over the tiers of addToBuffer and below *)
(* the critical threshold.                                                 *)
(***************************************************************************)
MaxBufferLogs == 2

BufferHeapLevels == {U32(4000), U32(8000), U32(10000), U32(30000)}

BufferFills == {MAX_BUFFER_SIZE \div 2 - 1, MAX_BUFFER_SIZE - 1}

InitBuffer ==
    /\ InitAfterSetup
    /\ freeHeap = U32(30000)
    /\ InitConfigured(WARNING, BufferFills)
    /\ budget = [NoBudget EXCEPT !.logs = MaxBufferLogs]

NextBuffer ==
    \/ \E t \in Tasks : LogWarning(t)
    \/ \E t \in Tasks, a \in AllocOutcomes : WriteLogLocked(t, a)
    \/ WriterCheck
    \/ WriterGcDone
    \/ WriterCycle
    \/ FlushRequest
    \/ RequestMemoryLocked(LoggerTask)
    \/ CleanupInvoke(LoggerTask)
    \/ CleanupFinish(LoggerTask)
    \/ WaitForMemoryAvailable(LoggerTask)
    \/ WaitForMemoryTimeout(LoggerTask)
    \/ RequestMemoryRetake(LoggerTask)
    \/ RequestMemoryRelocked(LoggerTask)
    \/ \E reserved \in BOOLEAN : FlushReserve(reserved)
    \/ \E a \in AllocOutcomes : FlushMove(a)
    \/ \E opened \in BOOLEAN : FlushOpen(opened)
    \/ FlushWrite
    \/ FlushRelease
    \/ ReleaseMemoryLocked(LoggerTask)
    \/ FlushReturn
    \/ \E h \in BufferHeapLevels : HeapChanges(h)

SpecBuffer == InitBuffer /\ [][NextBuffer]_vars

(***************************************************************************)
(* SpecDenied: the file-writer task after initFromConfig() with logLevel   *)
(* INFO, the buffer near its capacities, and the free heap between the     *)
(* 12288 bytes below which no flush is tried and the 22048 bytes a lease   *)
(* of priority BACKGROUND needs after setup(), or in the lowest tier of    *)
(* addToBuffer: every flush is tried and denied.                           *)
(***************************************************************************)
MaxDeniedLogs == 1

DeniedHeapLevels == {U32(8000), U32(16000)}

InitDenied ==
    /\ InitAfterSetup
    /\ freeHeap = U32(8000)
    /\ InitConfigured(INFO, BufferFills)
    /\ budget = [NoBudget EXCEPT !.logs = MaxDeniedLogs]

NextDenied ==
    \/ \E t \in Tasks : LogInfo(t)
    \/ \E t \in Tasks, a \in AllocOutcomes : WriteLogLocked(t, a)
    \/ WriterCheck
    \/ WriterCycle
    \/ FlushRequest
    \/ RequestMemoryLocked(LoggerTask)
    \/ CleanupInvoke(LoggerTask)
    \/ CleanupFinish(LoggerTask)
    \/ WaitForMemoryTimeout(LoggerTask)
    \/ RequestMemoryRetake(LoggerTask)
    \/ RequestMemoryRelocked(LoggerTask)
    \/ \E reserved \in BOOLEAN : FlushReserve(reserved)
    \/ \E h \in DeniedHeapLevels : HeapChanges(h)

SpecDenied == InitDenied /\ [][NextDenied]_vars

(***************************************************************************)
(* SpecShared: the file-writer task flushing a buffered line with logLevel *)
(* WARNING and enough heap for every lease, while two tasks issue at most  *)
(* MaxSharedCalls requests and releases of their own to the MemoryManager. *)
(***************************************************************************)
MaxSharedCalls == 2

SharedRequests == { << HTTP_REQUEST, NORMAL, U32(3000), NameA >> }

SharedReleases == { << HTTP_REQUEST, NameA >> }

InitShared ==
    /\ InitAfterSetup
    /\ freeHeap = U32(30000)
    /\ InitConfigured(WARNING, {1})
    /\ budget = [NoBudget EXCEPT !.calls = MaxSharedCalls]

NextShared ==
    \/ \E t \in Tasks, r \in SharedRequests : NamedRequest(t, r)
    \/ \E t \in Tasks, r \in SharedReleases :
          NamedRelease(t, "releaseMemory", r)
    \/ \E t \in AllTasks \ {WeatherTask} : RequestMemoryLocked(t)
    \/ \E t \in AllTasks \ {WeatherTask} : ReleaseMemoryLocked(t)
    \/ WriterCheck
    \/ WriterCycle
    \/ FlushRequest
    \/ \E reserved \in BOOLEAN : FlushReserve(reserved)
    \/ \E a \in AllocOutcomes : FlushMove(a)
    \/ \E opened \in BOOLEAN : FlushOpen(opened)
    \/ FlushWrite
    \/ FlushRelease
    \/ FlushReturn

SpecShared == InitShared /\ [][NextShared]_vars

-----------------------------------------------------------------------------
(***************************************************************************)
(* Claims about the lease table.                                           *)
(***************************************************************************)
\* No active lease has the identity (operation, moduleName).
NoLeaseOf(operation, moduleName) ==
    \A i \in OccupiedSlots :
        ~(/\ activeOperations[i].operation = operation
          /\ activeOperations[i].moduleName = moduleName)

\* C1: in every reachable state, under any interleaving of the four request
\* and release calls of concurrent tasks whose requests name a non-empty
\* owner, the active-lease count and the number of occupied lease slots are
\* each at most MAX_ACTIVE_OPERATIONS.
C1_LeaseBound ==
    /\ activeOperationCount <= MAX_ACTIVE_OPERATIONS
    /\ Cardinality(OccupiedSlots) <= MAX_ACTIVE_OPERATIONS

\* C1 witness: a requester that passed the slot check, gave up the mutex for
\* the cleanup pass and the wait, and came back to a table other tasks had
\* filled: it found no empty slot and returned with sixteen leases active.
C1_Witness ==
    /\ lastExit = "request:nofreeslot"
    /\ activeOperationCount = MAX_ACTIVE_OPERATIONS
    /\ Cardinality(OccupiedSlots) = MAX_ACTIVE_OPERATIONS

\* C2: once every granted request has been followed by exactly one release
\* call with the same (kind, ownerName), and no other release call was made,
\* the active-lease count is back at its value before the sequence (0).
C2_CountRestored ==
    (/\ AllIdle
     /\ \A id \in Identities : owed[id] = 0
     /\ ~strayReleases)
    => activeOperationCount = 0

\* C5: a requestMemoryQuiet call that has got past its xSemaphoreTake is
\* inside its one critical section, holding the mutex, until it returns: it
\* is never in the cleanup pass, in the wait loop or at a second take.
C5_QuietNeverCleans ==
    \A t \in Tasks :
        call[t].fn = "requestMemoryQuiet" => (pc[t] = "q_locked" /\ memoryMutex = t)

\* C5 witness: a quiet request was denied for lack of bytes, with a callback
\* registered, and no pass was run.
C5_Witness ==
    /\ lastExit = "quiet:denied"
    /\ cleanupCallbackCount > 0
    /\ lastPass = NoPass
    /\ AllIdle

\* C6: a requestMemory call that finds all sixteen lease slots in use
\* returns without a cleanup pass and without the wait loop, and leaves the
\* lease table and the active-lease count unchanged.
C6_FullTableNoCleanup ==
    [][\A t \in Tasks :
          (pc[t] = "rq_locked" /\ Cardinality(OccupiedSlots) = MAX_ACTIVE_OPERATIONS)
          => /\ pc'[t] \in {"rq_locked", "idle"}
             /\ activeOperations' = activeOperations
             /\ activeOperationCount' = activeOperationCount]_vars

\* C7: a release call made when no active lease has its (kind, ownerName)
\* leaves every lease slot and the active-lease count unchanged.
C7_MissingLeaseNoOp ==
    [][\A t \in Tasks :
          (/\ pc[t] = "rel_locked"
           /\ NoLeaseOf(call[t].operation, call[t].moduleName))
          => /\ activeOperations' = activeOperations
             /\ activeOperationCount' = activeOperationCount]_vars

-----------------------------------------------------------------------------
(***************************************************************************)
(* Claims about admission.                                                 *)
(***************************************************************************)
\* The reserve per priority as the specification states it.
StatedReserve(priority) ==
    CASE priority = CRITICAL   -> Div2(criticalMemoryThreshold)
      [] priority = IMPORTANT  -> criticalMemoryThreshold
      [] priority = NORMAL     -> lowMemoryThreshold
      [] priority = BACKGROUND -> Add32(lowMemoryThreshold, U32(10000))

C4_PriorityMonotone ==
    \A p1 \in Priorities, p2 \in Priorities :
        (p1 < p2 /\ canAllocate(U32(3000), p1)) => canAllocate(U32(3000), p2)

(***************************************************************************)
(* Claims about the cleanup callbacks.                                     *)
(***************************************************************************)
IsPrefix(a, b) == Len(a) <= Len(b) /\ SubSeq(b, 1, Len(a)) = a

\* C8: in every reachable state the number of registered callbacks is at
\* most MAX_CLEANUP_CALLBACKS and no registration has been written outside
\* the table.
C8_TableBound ==
    /\ cleanupCallbackCount <= MAX_CLEANUP_CALLBACKS
    /\ ~outOfTable

\* C9: a completed cleanup pass has invoked, in registration order and once
\* per registration, every callback registered before the pass began, and
\* nothing but registered callbacks.
C9_PassInvokesAll ==
    lastPass # NoPass
    => /\ IsPrefix(SubSeq(registered, 1, lastPass.start), lastPass.invoked)
       /\ IsPrefix(lastPass.invoked, registered)

(***************************************************************************)
(* Claims about the logger.                                                *)
(***************************************************************************)
\* C10: no message whose level was below the minimum level when its entry
\* point was called is printed on Serial or held in the buffer.
C10_BelowLevelSilent ==
    /\ ~serialLine.below
    /\ \A i \in 1 .. Len(logBuffer) : ~logBuffer[i].below

\* C11: a log call that passed the level filter and did not obtain logMutex
\* within its wait has printed its message on Serial when Serial output is
\* enabled.  (No step of such a call touches logBuffer.)
C11_TimeoutStillPrints ==
    (lastExit = "log:timeout" /\ serialEnabled) => serialLine # NoLine

\* C12: a task that is inside a log call leaves it, whoever holds the
\* buffer mutex and whatever the heap does, as long as the task itself is
\* scheduled.
C12_LogCallReturns ==
    \A t \in Tasks : (pc[t] = "log_locked") ~> (pc[t] = "idle")

\* A log call returns while the file-writer task holds the buffer mutex.
C12_Witness ==
    /\ lastExit = "log:written"
    /\ bufferMutex = LoggerTask
    /\ fileEnabled
    /\ ~Lt32(freeHeap, U32(BUFFER_SKIP_HEAP))

\* C13: a task that is inside requestMemory leaves it, as long as the task
\* is scheduled and the cleanup callbacks return: whoever holds the mutex
\* and whether or not memory ever becomes available.
C13_RequestReturns ==
    \A t \in Tasks : (call[t].fn = "requestMemory") ~> (pc[t] = "idle")

\* requestMemory returns false after its wait-for-memory loop ended with
\* memory still short.
C13_Witness ==
    /\ lastExit = "request:denied"
    /\ ~canAllocate(U32(3000), NORMAL)

\* The capacity the specification states for the free heap.
StatedCapacity ==
    IF Ge32(freeHeap, U32(12288)) THEN 50
    ELSE IF Ge32(freeHeap, U32(8192)) THEN 25
    ELSE 12

\* The step is a log call appending its entry to the buffer.
Appends ==
    \E t \in Tasks :
        /\ pc[t] = "log_locked"
        /\ pc'[t] = "idle"
        /\ logBuffer' # << >>
        /\ logBuffer'[Len(logBuffer')].id = call[t].id

\* C14 as stated: in every reachable state the buffer holds no more
\* entries than the capacity of the tier the free heap is in.
C14_WithinTierAlways == Len(logBuffer) <= StatedCapacity

\* C14, amended: whenever addToBuffer has appended an entry, the buffer
\* holds no more entries than the capacity of the tier of the free heap
\* that call read.
C14_WithinTierAfterAppend ==
    [][Appends => Len(logBuffer') <= StatedCapacity]_vars

\* An append that evicted at the capacity of the middle tier.
C14_Witness ==
    /\ lastExit = "log:written"
    /\ ~Ge32(freeHeap, U32(12288))
    /\ Len(logBuffer) = 25
    /\ logBuffer[25].id = logSeq

IsSuffix(s, buffer) ==
    \E k \in 0 .. Len(buffer) : s = SubSeq(buffer, k + 1, Len(buffer))

\* C16: when addToBuffer appends to a buffer that holds at least the
\* capacity of the current tier, the buffer afterwards is the most recent
\* of the entries it held, in their order, followed by the new entry.
C16_OldestFirst ==
    [][(Appends /\ Len(logBuffer) >= StatedCapacity)
         => IsSuffix(SubSeq(logBuffer', 1, Len(logBuffer') - 1), logBuffer)]_vars

\* An append to a buffer over the capacity of the middle tier: the 24 most
\* recent of its 49 entries are kept.
C16_Witness ==
    /\ lastExit = "log:written"
    /\ Len(logBuffer) = 25
    /\ logBuffer[1].id = 26
    /\ logBuffer[25].id = 50

\* C17: a flush that has ended without its write loop stopping for lack of
\* heap has printed to the file every entry it took out of the buffer, once
\* each and in their order.
C17_MovedIsWritten ==
    (lastFlush.ended /\ ~lastFlush.aborted)
        => lastFlush.written = lastFlush.moved

Ids(entries) == {entries[i].id : i \in 1 .. Len(entries)}

\* C18: what a flush has printed is a prefix of what it took out of the
\* buffer, no entry is in the file twice, and no entry that was taken out
\* of the buffer is in the buffer again.
C18_PrefixNoRepeat ==
    /\ lastFlush.ended => IsPrefix(lastFlush.written, lastFlush.moved)
    /\ \A i, j \in 1 .. Len(sdCard) : sdCard[i].id = sdCard[j].id => i = j
    /\ Ids(logBuffer) \cap (Ids(sdCard) \cup Ids(moved) \cup Ids(bufferCopy)) = {}

\* A second flush has ended after one that stopped for lack of heap: the
\* file holds the first entry of the first batch and the second batch, and
\* nothing of what the first flush left unwritten.
C18_Witness ==
    /\ lastFlush.ended
    /\ lastFlush.written # << >>
    /\ Len(sdCard) > Len(lastFlush.written)
    /\ logSeq > Len(sdCard)

\* C19: when the per-second check has cleared a non-empty buffer under
\* critical memory, the registered cleanup callbacks have been invoked.
C19_EmergencyRunsCleanup ==
    lastExit = "check:cleared" => lastPass.invoked = registered

\* C20: a call of init made when both mutexes exist leaves the mutexes as
\* they are and sets the two sink flags and the file path to its
\* arguments; and the fields init leaves are left unchanged by the same
\* call made again.
C20_InitReplaces ==
    /\ [][\A s, f, lc, bc \in BOOLEAN, n \in LogFileNames :
            (logMutex # NoMutex /\ bufferMutex # NoMutex
                /\ LoggerInit(s, f, n, lc, bc))
            => /\ UNCHANGED << logMutex, bufferMutex >>
               /\ serialEnabled' = s
               /\ fileEnabled' = f
               /\ logFilePath' = n]_vars
    /\ [](\A s, f, lc, bc \in BOOLEAN, n \in LogFileNames :
            LET once == InitOutcome(SinkConfiguration, s, f, n, lc, bc)
            IN  InitOutcome(once, s, f, n, lc, bc) = once)

\* init has been called with the file sink off and another path after
\* entries were buffered under an earlier configuration, while a log call
\* holds the logger mutex.
C20_Witness ==
    /\ logBuffer # << >>
    /\ ~fileEnabled
    /\ ~serialEnabled
    /\ logFilePath = ConfigLogFile
    /\ logMutex \in Tasks

\* C21: the lines of one task on the UART are in the order in which the
\* task made the log calls, whatever the other task logs in between.
C21_CallOrder ==
    \A i, j \in 1 .. Len(serialOut) :
        (i < j /\ serialOut[i].task = serialOut[j].task)
            => serialOut[i].id < serialOut[j].id

\* Both tasks have two lines each on the UART, those of one between those
\* of the other.
C21_Witness ==
    /\ Len(serialOut) = 4
    /\ serialOut[1].task = 1
    /\ serialOut[2].task = 2
    /\ serialOut[3].task = 1
    /\ serialOut[4].task = 2

\* Task t returns from a log call that held the logger mutex.
LogCallEnds(t) == pc[t] = "log_locked" /\ pc'[t] = "idle"

\* C26: a log call that reaches addToBuffer with less than 6144 bytes free
\* leaves the buffer as it is: its entry is not appended and no entry is
\* evicted or cleared.
C26_FloorLeavesBuffer ==
    [][\A t \in Tasks :
          (LogCallEnds(t) /\ Lt32(freeHeap, U32(6144)))
          => logBuffer' = logBuffer]_vars

\* A log call has returned with 4000 bytes free and the file sink on: the
\* 49 entries buffered before it are all there, and its own is not.
C26_Witness ==
    /\ lastExit = "log:written"
    /\ fileEnabled
    /\ bufferMutex = 0
    /\ freeHeap = U32(4000)
    /\ logSeq = MAX_BUFFER_SIZE
    /\ Len(logBuffer) = MAX_BUFFER_SIZE - 1
    /\ logBuffer[1].id = 1

\* The log call of task t is the first after the calls that filled the
\* buffer of SpecBuffer, which were made with more than 12288 bytes free.
AfterPlenty(t) == (call[t].id - 1) \in BufferFills

RequestSteps(t) == call[t].fn = "requestMemory" /\ pc'[t] # pc[t]

\* What the claim and its amendment share.  A call enters the cleanup pass
\* from a failed byte check only, with the mutex given; the pass runs to
\* its end once and the wait follows; the wait is followed by the take; no
\* step after the pass runs a pass or leads back to one; the re-check
\* returns, and when it fails the call returns false with the lease table
\* unchanged.
OnePassThenWait(t) ==
    /\ pc'[t] = "cleanup"
          => /\ pc[t] = "rq_locked"
             /\ ~canAllocate(call[t].estimatedBytes, call[t].priority)
             /\ memoryMutex' # t
    /\ pc[t] = "cleanup"
          => /\ pc'[t] = "wait"
             /\ lastPass' # NoPass
             /\ memoryMutex' # t
    /\ pc[t] = "wait" => pc'[t] = "retake" /\ memoryMutex' # t
    /\ pc[t] \in {"wait", "retake", "relocked"} => lastPass' = NoPass
    /\ pc[t] = "relocked"
          => /\ pc'[t] = "idle"
             /\ memoryMutex = t
             /\ ~canAllocate(call[t].estimatedBytes, call[t].priority)
                   => /\ lastExit' = "request:denied"
                      /\ UNCHANGED leaseVars

\* C23 as stated: a requestMemory call whose byte check fails performs
\* exactly one cleanup pass, then the wait, then re-checks admission once
\* under the re-acquired mutex; a failed re-check returns false with the
\* lease table unchanged, and no second pass is run in the call.
C23_OnePassOneRecheck ==
    [][\A t \in Tasks :
          RequestSteps(t)
          => /\ OnePassThenWait(t)
             /\ pc[t] = "retake"
                   => pc'[t] = "relocked" /\ memoryMutex' = t]_vars

\* C23, amended: the same, except that a call that does not obtain the
\* mutex again within its wait returns false without a re-check, the lease
\* table unchanged.
C23_OnePassRecheckIfRetaken ==
    [][\A t \in Tasks :
          RequestSteps(t)
          => /\ OnePassThenWait(t)
             /\ pc[t] = "retake"
                   => \/ pc'[t] = "relocked" /\ memoryMutex' = t
                      \/ /\ pc'[t] = "idle"
                         /\ lastExit' = "request:retimeout"
                         /\ memoryMutex \notin {0, t}
                         /\ UNCHANGED << leaseVars, memoryMutex >>]_vars

\* A re-check has failed after the pass and the wait, and the call
\* returned false leaving the lease another call had been granted.
C23_Witness ==
    /\ lastExit = "request:denied"
    /\ activeOperationCount = 1
    /\ memoryMutex = 0

LeasesOf(operation, moduleName) ==
    {i \in OccupiedSlots : /\ activeOperations[i].operation = operation
                           /\ activeOperations[i].moduleName = moduleName}

\* C25: the critical section of a release call changes at most one slot;
\* the slot it changes is the lowest of those whose kind and stored name
\* equal the arguments, and is cleared; the active-lease count falls by one
\* at most; and of two leases with the identity of the call one is still
\* there after it.
C25_ReleaseRemovesOne ==
    [][\A t \in Tasks :
          (pc[t] = "rel_locked" /\ pc'[t] = "idle")
          => LET changed == {i \in Slots :
                               activeOperations'[i] # activeOperations[i]}
                 mine == LeasesOf(call[t].operation, call[t].moduleName)
             IN  /\ Cardinality(changed) <= 1
                 /\ \A i \in changed :
                       /\ i \in mine
                       /\ \A j \in mine : i <= j
                       /\ activeOperations'[i] = EmptyOperation
                 /\ activeOperationCount' >= activeOperationCount - 1
                 /\ Cardinality(mine) >= 2
                       => \E j \in mine :
                             activeOperations'[j] = activeOperations[j]]_vars

\* A release call has cleared the first of the slots that held leases of
\* one identity, and the lease in the second slot is still active.
C25_Witness ==
    /\ lastExit = "release:removed"
    /\ SlotIsEmpty(0)
    /\ LeasesOf(HTTP_REQUEST, NameA) = {1}

\* requestMemory returns false to the flushBufferToFile that called it.
FlushDenied ==
    /\ writerPc = "flush"
    /\ leaseResult[LoggerTask] = "none"
    /\ leaseResult'[LoggerTask] \notin (GrantExits \cup {"none"})

\* C28: the step in which the lease is denied to the flush and the step in
\* which flushBufferToFile returns on it write nothing to the file and leave
\* the log buffer as it is.
C28_DeniedFlushTouchesNothing ==
    [][(FlushDenied \/ lastExit' = "flush:denied")
       => (logBuffer' = logBuffer /\ sdCard' = sdCard)]_vars

-----------------------------------------------------------------------------
\* C29: once a flushBufferToFile has returned, and until the next one asks
\* for its lease, no lease of (CONFIG_OPERATION, "Logger-Flush") is active,
\* whatever the other tasks do with the MemoryManager.
C29_FlushLeaseReleased ==
    writerPc \in {"check", "gc", "cycle"}
        => NoLeaseOf(CONFIG_OPERATION, FlushName)

\* C30: while flushBufferToFile waits for the bus mutex, holds it or writes
\* the file, the file-writer task holds neither bufferMutex nor logMutex.
C30_WriteHoldsNoLoggerMutex ==
    writerPc \in {"open", "write"}
        => (bufferMutex # LoggerTask /\ logMutex # LoggerTask)

\* A log call has appended its entry to the buffer while the flush was
\* writing the batch it had moved out.
C30_Witness ==
    /\ writerPc = "write"
    /\ spiMutex = LoggerTask
    /\ bufferCopy # << >>
    /\ lastExit = "log:written"
    /\ logBuffer # << >>
    /\ logBuffer[Len(logBuffer)].id = logSeq

(***************************************************************************)
(* Claims about the clients of the coordinator.                            *)
(***************************************************************************)
\* C22: whenever fetchWeatherData has returned, no lease of the weather
\* subsystem, (HTTP_REQUEST, "AccuWeather-Fetch") or (JSON_PARSING,
\* "AccuWeather-Parse"), is active.
C22_WeatherLeasesReleased ==
    (/\ weatherPc = "idle"
     /\ pc[WeatherTask] = "idle"
     /\ leaseResult[WeatherTask] = "none")
    => /\ NoLeaseOf(HTTP_REQUEST, FetchName)
       /\ NoLeaseOf(JSON_PARSING, ParseName)

(***************************************************************************)
(* SpecCycle: the file-writer task while configTaskWrapper re-initializes   *)
(* the logger (part_004:112-115), with the file sink on or off.             *)
(***************************************************************************)
MaxCycleLogs == 1

\* The levels of the re-initializations of SpecCycle.
CycleLevels == {WARNING, ERROR}

InitCycle ==
    /\ InitAfterSetup
    /\ InitConfigured(WARNING, {0})
    /\ budget = [NoBudget EXCEPT !.logs = MaxCycleLogs]

NextCycle ==
    \/ NextWriter
    \/ \E level \in CycleLevels, enableFile \in BOOLEAN :
          InitFromConfig(level, enableFile, TRUE, TRUE)

SpecCycle == InitCycle /\ [][NextCycle]_vars

\* C31: the step that ends a background cycle enters flushBufferToFile only
\* with the file sink enabled and a free heap of at least 12288 bytes;
\* otherwise it goes back to the per-second checks and leaves the buffer,
\* the flush batch and the leases and requests of the coordinator as they
\* are.  The file-writer task starts a request only inside
\* flushBufferToFile.
C31_FlushOnlyEnabledAndRoomy ==
    [][/\ (writerPc = "cycle" /\ writerPc' = "flush")
            => (fileEnabled /\ Ge32(freeHeap, U32(12288)))
       /\ (writerPc = "cycle" /\ writerPc' \notin {"cycle", "flush"})
            => /\ writerPc' = "check"
               /\ UNCHANGED << logBuffer, bufferCopy, moved, pc, call,
                               leaseVars, leaseResult >>
       /\ (/\ call[LoggerTask].fn # "requestMemory"
           /\ call'[LoggerTask].fn = "requestMemory")
            => writerPc = "flush"]_vars

\* A cycle has entered flushBufferToFile with entries in the buffer, and
\* its request has not started.
C31_Witness ==
    /\ writerPc = "flush"
    /\ pc[LoggerTask] = "idle"
    /\ leaseResult[LoggerTask] = "none"
    /\ fileEnabled
    /\ Ge32(freeHeap, U32(FLUSH_HEAP))
    /\ logBuffer # << >>

\* The places of requestMemory after canAllocate has answered no: the
\* cleanup pass, the wait of waitForMemory and the re-take of the mutex.
CleanupAndWait == {"cleanup", "wait", "retake", "relocked"}

\* C32: a cycle that enters flushBufferToFile does so at a heap level at
\* which canAllocate admits the flush's request (BACKGROUND, 2048 bytes)
\* under the thresholds in force, and the file-writer task is never in the
\* cleanup-and-wait path of requestMemory.
C32_FlushRequestAdmissible ==
    [][/\ (writerPc = "cycle" /\ writerPc' = "flush")
            => canAllocate(U32(2048), BACKGROUND)
       /\ pc'[LoggerTask] \notin CleanupAndWait]_vars

(***************************************************************************)
(* SpecConfig: configTaskWrapper re-initializes the logger from the         *)
(* configuration (part_004:112-115) while other tasks log.                  *)
(***************************************************************************)
MaxConfigLogs == 2

\* config.logger of this specification.
ConfiguredLevel == WARNING
ConfiguredFileLogging == TRUE

\* The logger as setup() leaves it (part_004:186-187): init(true, false,
\* "/hoowachy_boot.log") with both mutexes created, setLogLevel(DEBUG).
InitBooted ==
    /\ terminal = FALSE
    /\ serialOut = << >>
    /\ logMutex = 0
    /\ bufferMutex = 0
    /\ currentLogLevel = DEBUG
    /\ serialEnabled = TRUE
    /\ fileEnabled = FALSE
    /\ logFilePath = BootLogFile
    /\ logBuffer = << >>
    /\ logSeq = 0
    /\ InitWriter

InitConfig ==
    /\ InitAfterSetup
    /\ InitBooted
    /\ budget = [NoBudget EXCEPT !.logs = MaxConfigLogs]

NextConfig ==
    \/ InitFromConfig(ConfiguredLevel, ConfiguredFileLogging, TRUE, TRUE)
    \/ \E t \in Tasks, c \in LogCalls : Log(t, c)
    \/ \E t \in Tasks, a \in AllocOutcomes : WriteLogLocked(t, a)

SpecConfig == InitConfig /\ [][NextConfig]_vars

\* C33: when initFromConfig has returned, the minimum level is the
\* configured one and the sink settings are the configured ones, whatever
\* the other tasks were doing.
C33_ConfigurationApplied ==
    lastExit = "config:returned"
        => /\ currentLogLevel = ConfiguredLevel
           /\ serialEnabled = TRUE
           /\ fileEnabled = ConfiguredFileLogging
           /\ logFilePath = ConfigLogFile

\* The writeLog of task t, holding logMutex, arrives at the take of
\* bufferMutex (part_006:291) while another task holds it.
WaitsForBufferInsideLog(t) ==
    /\ pc[t] = "log_locked"
    /\ logMutex = t
    /\ fileEnabled
    /\ ~Lt32(freeHeap, U32(BUFFER_SKIP_HEAP))
    /\ bufferMutex \notin {0, NoMutex}

\* C34: no task waits for the buffer mutex while holding the logger
\* mutex: no writeLog goes through its critical section with the buffer
\* mutex held by another task at the take inside addToBuffer.
C34_NoBufferWaitInsideLog ==
    [][\A t \in Tasks :
          ~(WaitsForBufferInsideLog(t) /\ pc'[t] = "idle")]_vars

(***************************************************************************)
(* SpecStamp: the timestamp of an entry, from the emplace_back of           *)
(* addToBuffer (part_006:314) to the line flushBufferToFile prints          *)
(* (part_006:384-393).  In this specification an entry of logBuffer is      *)
(* [level, timestamp] and sdCard holds the lines printed: their time        *)
(* string, their level, and whether time() and localtime_r succeeded when   *)
(* the line was formatted.                                                  *)
(***************************************************************************)
MaxStampLogs == 3

\* Values of millis() at the emplace_back: 0 in the first millisecond after
\* boot and at each wrap of the 32-bit counter, positive otherwise.
MillisValues == {0, 1500}

\* A value of millis() at the time a line is formatted.
MillisAtFormat == 20000

\* Logger::getCurrentTimestamp (part_006:445-457); clock is whether time()
\* and localtime_r succeed.
getCurrentTimestamp(clock) ==
    IF ~clock
    THEN [form |-> "millis", millis |-> MillisAtFormat]
    ELSE [form |-> "%Y-%m-%d %H:%M:%S"]

\* Logger::getLevelString (part_006:435-444).
getLevelString(level) ==
    CASE level = DEBUG   -> "DEBUG"
      [] level = INFO    -> "INFO"
      [] level = WARNING -> "WARN"
      [] level = ERROR   -> "ERROR"
      [] OTHER           -> "UNKNOWN"

\* Logger::formatLogMessage (part_006:422-433).
formatLogMessage(level, timestamp, clock) ==
    [timeStr |-> IF timestamp = 0
                 THEN getCurrentTimestamp(clock)
                 ELSE [form |-> "millis", millis |-> timestamp],
     levelStr |-> getLevelString(level)]

\* Line 314: logBuffer.emplace_back(level, message, millis()).
EmplaceBack(level, millis) ==
    /\ Spend("logs")
    /\ logBuffer' = Append(logBuffer, [level |-> level, timestamp |-> millis])
    /\ NoReturn
    /\ UNCHANGED << sdCard, logMutex, bufferMutex, currentLogLevel,
                    serialEnabled, fileEnabled, logFilePath, logSeq, serialVars,
                    spiMutex, writerPc, checkIndex, bufferCopy, writeIndex,
                    moved, coordinatorVars, weatherVars, freeHeap, pc, call >>

\* Lines 385-393 for one entry: formatLogMessage(entry.level, entry.message,
\* entry.timestamp), logFile.print.
PrintEntry(clock) ==
    /\ logBuffer # << >>
    /\ sdCard' = Append(sdCard,
                        [line |-> formatLogMessage(Head(logBuffer).level,
                                                   Head(logBuffer).timestamp,
                                                   clock),
                         clock |-> clock])
    /\ logBuffer' = Tail(logBuffer)
    /\ NoReturn
    /\ UNCHANGED << logMutex, bufferMutex, currentLogLevel, serialEnabled,
                    fileEnabled, logFilePath, logSeq, serialVars, spiMutex,
                    writerPc, checkIndex, bufferCopy, writeIndex, moved,
                    coordinatorVars, weatherVars, freeHeap, pc, call, budget >>

InitStamp ==
    /\ InitAfterSetup
    /\ InitConfigured(WARNING, {0})
    /\ budget = [NoBudget EXCEPT !.logs = MaxStampLogs]

NextStamp ==
    \/ \E level \in LogLevels, millis \in MillisValues :
          EmplaceBack(level, millis)
    \/ \E clock \in BOOLEAN : PrintEntry(clock)

SpecStamp == InitStamp /\ [][NextStamp]_vars

\* C35: a line of the log file carries the wall-clock form exactly when
\* wall-clock time was available as the line was formatted, and the
\* milliseconds form only when it was not.
C35_FileLinesWallClock ==
    \A i \in 1 .. Len(sdCard) :
        sdCard[i].clock <=> sdCard[i].line.timeStr.form = "%Y-%m-%d %H:%M:%S"

(***************************************************************************)
(* SpecSinks: SpecWriter with a terminal on the UART, so that both sinks    *)
(* of a message are observed.                                               *)
(***************************************************************************)
MaxSinkLogs == 3

InitSinks ==
    /\ InitAfterSetup
    /\ terminal = TRUE
    /\ serialOut = << >>
    /\ logMutex = 0
    /\ bufferMutex = 0
    /\ currentLogLevel = WARNING
    /\ serialEnabled = TRUE
    /\ fileEnabled = TRUE
    /\ logFilePath = ConfigLogFile
    /\ logSeq = 0
    /\ logBuffer = << >>
    /\ InitWriter
    /\ budget = [NoBudget EXCEPT !.logs = MaxSinkLogs]

SpecSinks == InitSinks /\ [][NextWriter]_vars

\* The entries of seq whose lines are on the UART are in seq in the order
\* of their lines.
SameOrder(seq) ==
    \A p, q \in 1 .. Len(seq), a, b \in 1 .. Len(serialOut) :
        (/\ p < q
         /\ serialOut[a].id = seq[p].id
         /\ serialOut[b].id = seq[q].id) => a < b

\* C36: the messages that are both on the immediate sink and in the
\* buffer, or in the batch a flush has moved out of it, or in the log
\* file, are there in the order of their lines on the immediate sink.
C36_BufferOrderIsSinkOrder ==
    /\ SameOrder(logBuffer)
    /\ SameOrder(bufferCopy)
    /\ SameOrder(sdCard)

\* The batch of a flush carries two messages of different tasks which are
\* both on the UART.
C36_Witness ==
    /\ Len(bufferCopy) >= 2
    /\ \E a, b \in 1 .. Len(serialOut) :
          /\ serialOut[a].task # serialOut[b].task
          /\ serialOut[a].id = bufferCopy[1].id
          /\ serialOut[b].id = bufferCopy[2].id

(***************************************************************************)
(* SpecOwners: SpecNames with owner names that are not empty: one of one    *)
(* character, another, and one that does not fit the slot.                  *)
(***************************************************************************)
MaxOwnerCalls == 4

OwnerRequests ==
    { << HTTP_REQUEST, NORMAL, U32(3000), NameA >>,
      << JSON_PARSING, IMPORTANT, U32(3000), NameB >>,
      << JSON_PARSING, CRITICAL, U32(3000), LongName >> }

OwnerReleases ==
    { << HTTP_REQUEST, NameA >>, << JSON_PARSING, NameB >>,
      << JSON_PARSING, LongName >>, << JSON_PARSING, NameA >> }

InitOwners ==
    /\ InitAfterSetup
    /\ InitLogger
    /\ budget = [NoBudget EXCEPT !.calls = MaxOwnerCalls]

NextOwners ==
    \/ \E t \in Tasks, r \in OwnerRequests : NamedRequest(t, r)
    \/ \E t \in Tasks, r \in OwnerRequests : NamedRequestQuiet(t, r)
    \/ \E t \in Tasks, fn \in ReleaseFns, r \in OwnerReleases :
          NamedRelease(t, fn, r)
    \/ \E t \in Tasks : RequestMemoryLocked(t)
    \/ \E t \in Tasks : CleanupInvoke(t)
    \/ \E t \in Tasks : CleanupFinish(t)
    \/ \E t \in Tasks : WaitForMemoryAvailable(t)
    \/ \E t \in Tasks : WaitForMemoryTimeout(t)
    \/ \E t \in Tasks : RequestMemoryRetake(t)
    \/ \E t \in Tasks : RequestMemoryRelocked(t)
    \/ \E t \in Tasks : RequestMemoryQuietLocked(t)
    \/ \E t \in Tasks : ReleaseMemoryLocked(t)
    \/ \E h \in HeapLevels : HeapChanges(h)

SpecOwners == InitOwners /\ [][NextOwners]_vars

\* The slots whose owner name is not empty.
NamedSlots == {i \in Slots : activeOperations[i].moduleName # EmptyName}

\* C37: with owner names that are not empty, the active-lease count is the
\* number of slots whose owner name is not empty.
C37_CountIsNamedSlots == activeOperationCount = Cardinality(NamedSlots)

\* A release has just removed one of two leases.
C37_Witness ==
    /\ lastExit = "release:removed"
    /\ activeOperationCount = 1
    /\ Cardinality(NamedSlots) = 1

(***************************************************************************)
(* SpecLocks: SpecWriter with one client task logging and the other         *)
(* calling the coordinator, so that every operation that takes a mutex      *)
(* runs beside the others.                                                  *)
(***************************************************************************)
MaxLockLogs == 1
MaxLockCalls == 2

\* Free heap below the critical threshold, and enough for every request.
LockHeapLevels == {U32(1000), U32(30000)}

InitLocks ==
    /\ InitAfterSetup
    /\ freeHeap = U32(30000)
    /\ InitConfigured(WARNING, {0})
    /\ budget = [NoBudget EXCEPT !.logs = MaxLockLogs, !.calls = MaxLockCalls]

\* The client task that calls the coordinator, and the one that logs.
CoordinatorClient == 1
LogClient == 2

NextLocks ==
    \/ LogWarning(LogClient)
    \/ \E a \in AllocOutcomes : WriteLogLocked(LogClient, a)
    \/ \E r \in SharedRequests : NamedRequest(CoordinatorClient, r)
    \/ \E r \in SharedRequests : NamedRequestQuiet(CoordinatorClient, r)
    \/ \E fn \in ReleaseFns, r \in SharedReleases :
          NamedRelease(CoordinatorClient, fn, r)
    \/ \E t \in {CoordinatorClient, LoggerTask} : RequestMemoryLocked(t)
    \/ \E t \in {CoordinatorClient, LoggerTask} : CleanupInvoke(t)
    \/ \E t \in {CoordinatorClient, LoggerTask} : CleanupFinish(t)
    \/ \E t \in {CoordinatorClient, LoggerTask} : WaitForMemoryAvailable(t)
    \/ \E t \in {CoordinatorClient, LoggerTask} : WaitForMemoryTimeout(t)
    \/ \E t \in {CoordinatorClient, LoggerTask} : RequestMemoryRetake(t)
    \/ \E t \in {CoordinatorClient, LoggerTask} : RequestMemoryRelocked(t)
    \/ RequestMemoryQuietLocked(CoordinatorClient)
    \/ \E t \in {CoordinatorClient, LoggerTask} : ReleaseMemoryLocked(t)
    \/ WriterCheck
    \/ WriterGcDone
    \/ WriterCycle
    \/ FlushRequest
    \/ \E reserved \in BOOLEAN : FlushReserve(reserved)
    \/ \E a \in AllocOutcomes : FlushMove(a)
    \/ \E opened \in BOOLEAN : FlushOpen(opened)
    \/ FlushWrite
    \/ FlushRelease
    \/ FlushReturn
    \/ BusChanges
    \/ \E h \in LockHeapLevels : HeapChanges(h)

SpecLocks == InitLocks /\ [][NextLocks]_vars

\* Task t holds one of the four mutexes.
HoldsMutex(t) ==
    \/ memoryMutex = t
    \/ logMutex = t
    \/ bufferMutex = t
    \/ spiMutex = t

\* The file-writer task is in no call of the logger or of the coordinator:
\* it is between two per-second checks or at the end of a cycle.
WriterOutside ==
    /\ writerPc \in {"check", "cycle"}
    /\ pc[LoggerTask] = "idle"

\* C38: a task that is in no call of the coordinator or of the logger
\* holds none of the coordinator, logger, buffer and bus mutexes, and a
\* task whose call of the coordinator has returned inside a longer
\* operation does not hold the coordinator mutex.
C38_NoMutexHeldAfterReturn ==
    /\ \A t \in Tasks : pc[t] = "idle" => ~HoldsMutex(t)
    /\ WriterOutside => ~HoldsMutex(LoggerTask)
    /\ \A t \in AllTasks : pc[t] = "idle" => memoryMutex # t

\* A request has just returned denied after the cleanup and the wait, the
\* coordinator mutex is free, and the other client is inside writeLog.
C38_Witness ==
    /\ lastExit = "request:denied"
    /\ pc[CoordinatorClient] = "idle"
    /\ memoryMutex = 0
    /\ logMutex = LogClient

(***************************************************************************)
(* SpecNest: the logger at level INFO with the file sink on, so that the    *)
(* LOG_INFO calls MemoryManager makes while it holds memoryMutex, and those *)
(* ConfigManager::initializeSD makes while it holds spiMutex               *)
(* (config_manager.cpp:43-89), go through logMutex and bufferMutex.  The    *)
(* log file is cut off at MaxFileLines lines, and the file-writer task is   *)
(* followed from the last two per-second checks of a cycle to the end of    *)
(* that cycle's flush.                                                      *)
(***************************************************************************)
MaxNestLogs == 2
MaxFileLines == 2

\* The lines initializeSD logs while it holds spiMutex, when a card is
\* attached (config_manager.cpp:50, 51, 65, 67-74, 78, 81).
SD_LOGS == 6

\* ConfigManager::initializeSD between its take of spiMutex and its give.
InitializeSDLogs ==
    /\ spiMutex = BusTask
    /\ Spend("logs")
    /\ MemoryManagerLogs(SD_LOGS)
    /\ NoReturn
    /\ UNCHANGED << coordinatorVars, weatherVars, freeHeap, pc, call >>

\* The per-second check at which SpecNest starts.
NestFirstCheck == CHECKS_PER_CYCLE - 2

InitNest ==
    /\ InitAfterSetup
    /\ freeHeap = U32(30000)
    /\ terminal = FALSE
    /\ serialOut = << >>
    /\ logMutex = 0
    /\ bufferMutex = 0
    /\ currentLogLevel = INFO
    /\ serialEnabled = TRUE
    /\ fileEnabled = TRUE
    /\ logFilePath = ConfigLogFile
    /\ logSeq = 0
    /\ logBuffer = << >>
    /\ spiMutex = 0
    /\ sdCard = << >>
    /\ writerPc = "check"
    /\ checkIndex = NestFirstCheck
    /\ bufferCopy = << >>
    /\ writeIndex = 0
    /\ moved = << >>
    /\ budget = [NoBudget EXCEPT !.logs = MaxNestLogs]

\* The per-second checks SpecNest follows.
NestCheck == checkIndex >= NestFirstCheck /\ WriterCheck

\* The write loop, up to MaxFileLines lines in the file.
NestWrite == Len(sdCard) < MaxFileLines /\ FlushWrite

NextNest ==
    \/ LogInfo(LogClient)
    \/ \E a \in AllocOutcomes : WriteLogLocked(LogClient, a)
    \/ RequestMemoryLocked(LoggerTask)
    \/ CleanupInvoke(LoggerTask)
    \/ CleanupFinish(LoggerTask)
    \/ WaitForMemoryAvailable(LoggerTask)
    \/ WaitForMemoryTimeout(LoggerTask)
    \/ RequestMemoryRetake(LoggerTask)
    \/ RequestMemoryRelocked(LoggerTask)
    \/ ReleaseMemoryLocked(LoggerTask)
    \/ NestCheck
    \/ WriterGcDone
    \/ WriterCycle
    \/ FlushRequest
    \/ \E reserved \in BOOLEAN : FlushReserve(reserved)
    \/ \E a \in AllocOutcomes : FlushMove(a)
    \/ \E opened \in BOOLEAN : FlushOpen(opened)
    \/ NestWrite
    \/ FlushRelease
    \/ FlushReturn
    \/ BusChanges
    \/ InitializeSDLogs
    \/ \E h \in LockHeapLevels : HeapChanges(h)

SpecNest == InitNest /\ [][NextNest]_vars

\* Task t is at a take of memoryMutex, or may call the coordinator next: a
\* client in no call, a task at the re-take of requestMemory or at the take
\* of registerCleanupCallback, the file-writer task at the request or the
\* release of flushBufferToFile.
AtCoordinatorTake(t) ==
    \/ t \in Tasks /\ pc[t] = "idle"
    \/ t \in AllTasks /\ pc[t] \in {"retake", "reg_take"}
    \/ t = LoggerTask /\ pc[t] = "idle" /\ writerPc \in {"flush", "release"}

\* Task t is at a take of spiMutex: the file-writer task at line 380.
AtBusTake(t) == t = LoggerTask /\ writerPc = "open"

\* Task t is at a take of logMutex, or may log next: a client in no call,
\* a task inside MemoryManager, the task that holds the bus.
AtLoggerTake(t) ==
    \/ t \in Tasks /\ pc[t] = "idle"
    \/ memoryMutex = t
    \/ t = BusTask /\ spiMutex = t

\* C39: no task takes or waits for the coordinator, bus or logger mutex
\* while it holds the buffer mutex, nor for the coordinator or bus mutex
\* while it holds the logger mutex.
C39_LockOrder ==
    [][\A t \in AllTasks \cup {BusTask} :
          /\ bufferMutex = t
               => /\ ~(memoryMutex # t /\ memoryMutex' = t)
                  /\ ~(spiMutex # t /\ spiMutex' = t)
                  /\ ~(logMutex # t /\ logMutex' = t)
          /\ logMutex = t
               => /\ ~(memoryMutex # t /\ memoryMutex' = t)
                  /\ ~(spiMutex # t /\ spiMutex' = t)
          /\ AtCoordinatorTake(t) => (bufferMutex # t /\ logMutex # t)
          /\ AtBusTake(t) => (bufferMutex # t /\ logMutex # t)
          /\ AtLoggerTake(t) => bufferMutex # t]_vars

\* requestMemory has granted the flush its lease and its lines, logged
\* with memoryMutex held, are the last of the buffer, while another task
\* holds the bus.
C39_Witness ==
    /\ lastExit = "request:granted"
    /\ leaseResult[LoggerTask] = "request:granted"
    /\ logBuffer # << >>
    /\ logBuffer[Len(logBuffer)] = ManagerEntry
    /\ spiMutex = BusTask

(***************************************************************************)
(* The sum of the admission check, taken in the integers.                   *)
(***************************************************************************)
\* a + b <= h, for a, b and h of 32 bits and the sum not cut to 32 bits.
SumAtMost(a, b, h) ==
    LET lo == a[2] + b[2]
        hi == a[1] + b[1] + (lo \div Half)
    IN  hi < Half /\ Ge32(h, << hi, lo % Half >>)

\* C40: a request is granted only if estimatedBytes plus the reserve of
\* its priority, added without wrapping, is at most the free heap.
C40_GrantWithinHeap ==
    [][\A t \in Tasks :
          (/\ pc[t] \in {"rq_locked", "relocked", "q_locked"}
           /\ pc'[t] # pc[t]
           /\ lastExit' \in GrantExits)
          => SumAtMost(call[t].estimatedBytes, requiredFree(call[t].priority),
                       freeHeap)]_vars

=============================================================================
